---- MODULE Spec2Model ----
(***************************************************************************)
(* Process supervision engine of iRacingManager: ProcessManager            *)
(* (src/src/core/process_manager.py), iRacingWatcher                       *)
(* (src/src/core/iracing_watcher.py) and the glue of iRacingManager        *)
(* (src/src/core/iracing_manager.py).                                      *)
(*                                                                         *)
(* Threads: "main" (the supervising thread, which calls the public         *)
(* operations), "watch" (the watcher's polling thread, which also runs the *)
(* exit callback) and the launch tasks of start_all_programs (the main     *)
(* program's launch runs on the calling thread, the helpers' launches on   *)
(* the pool).  Every statement that reads or writes shared state is one    *)
(* step.  `if k in d: del d[k]` is taken as one step.                      *)
(***************************************************************************)
EXTENDS Integers, Sequences, FiniteSets, TLC

\* ---- bounds of the model ------------------------------------------------
MaxStartAll == 2      \* calls of start_all_programs in one run
MaxOps == 2           \* other public calls made by the main thread
MaxRunOps == 2        \* calls made by the main thread once the programs are started
MaxAttempts == 3      \* attempt counts given to the minimizer, length of a window script

\* ---- program constants --------------------------------------------------
parallel_workers == 4
\* Durations are in tenths of a second.
inner_max_attempts == 3    \* max_attempts=3 of the call of minimize_window
inner_retry_delay == 5     \* retry_delay=0.5 of the call of minimize_window
placement_wait == 5        \* time.sleep(0.5) before the placement query

\* ---- inputs -------------------------------------------------------------
P(n, m, t) == [name |-> n, is_main |-> m, starts_in_tray |-> t]

\* The configurations start_all_programs is launched with: one main and two
\* helpers (one starting in the tray), and two programs both flagged is_main.
Configs ==
  { << P("p1", TRUE, FALSE), P("p2", FALSE, FALSE), P("p3", FALSE, TRUE) >>,
    << P("p1", TRUE, FALSE), P("p2", TRUE, FALSE) >> }

\* The configurations of the runs that go on after the programs are started:
\* a main and a helper, and two programs both flagged is_main.
PairConfigs ==
  { << P("p1", TRUE, FALSE), P("p2", FALSE, FALSE) >>,
    << P("p1", TRUE, FALSE), P("p2", TRUE, FALSE) >> }

Names == {"p1", "p2", "p3"}
Threads == {"main", "watch"}

VARIABLES
  program_configs,            \* the list start_all_programs is called with
  WINDOWS_IMPORTS_AVAILABLE,  \* process_utils flag: psutil/pywin32 imported
  ostab,                      \* OS process table, pid = index
  processes,                  \* ProcessManager.processes (dict, insertion order)
  terminated,                 \* ProcessManager._terminated_programs
  main_program_proc,          \* pid of ProcessManager.main_program_proc, 0 = None
  main_program_name,          \* ProcessManager.main_program_name, "-" = None
  launch,                     \* frames of _handle_program_startup_and_minimization
  sa,                         \* frame of start_all_programs
  pc,                         \* position of each thread
  ta,                         \* frames of terminate_all_programs, per thread
  tp,                         \* frames of terminate_program, per thread
  watch,                      \* iRacingWatcher fields and its thread's locals
  mgr,                        \* iRacingManager fields
  cur, prev,                  \* the main thread's current/last and previous call
  budget,                     \* calls the main thread may still make
  mz                          \* frame of a window-minimization call, its window source and clock

pmVars == << processes, terminated, main_program_proc, main_program_name >>
saVars == << launch, sa >>
thVars == << pc, ta, tp >>
\* What no step of the supervising, polling and launch threads changes: the
\* inputs, and the frame of a minimization call followed on its own.
cfgVars == << program_configs, WINDOWS_IMPORTS_AVAILABLE, mz >>
histVars == << cur, prev, budget >>
vars == << cfgVars, ostab, pmVars, saVars, thVars, watch, mgr, histVars >>

\* ---- dict helpers (Python dict keeps insertion order) --------------------
Has(d, n) == \E i \in 1..Len(d) : d[i].name = n
Idx(d, n) == CHOOSE i \in 1..Len(d) : d[i].name = n
Get(d, n) == d[Idx(d, n)]
Del(d, n) == SelectSeq(d, LAMBDA e : e.name # n)
Put(d, e) == IF Has(d, e.name) THEN [d EXCEPT ![Idx(d, e.name)] = e] ELSE Append(d, e)
Keys(d) == [i \in 1..Len(d) |-> d[i].name]
KeySet(d) == {d[i].name : i \in 1..Len(d)}

\* ---- OS process primitive ------------------------------------------------
\* subprocess.Popen(...): a new process entry; visible = creationflags 0.
NewProc(n, vis) ==
  [name |-> n, state |-> "running", visible |-> vis, settle |-> FALSE,
   minimize |-> "none", term |-> FALSE, kill |-> FALSE, sigCalls |-> 0]

\* proc.poll() is None
Running(pid) == ostab[pid].state = "running"

\* The pids the engine still holds a handle to.
Referenced ==
  {processes[i].pid : i \in 1..Len(processes)}
    \cup {launch[i].pid : i \in {j \in 1..Len(launch) : launch[j].pc \notin {"idle", "done"}}}
    \cup {tp[t].pid : t \in Threads}
    \cup {watch.target}

\* What the table keeps of a process the engine holds no handle to any more:
\* whether it is still running, and the signals it was sent if it is.
Forgotten(rec) ==
  IF rec.state = "running"
  THEN [NewProc("-", FALSE) EXCEPT !.term = rec.term, !.kill = rec.kill]
  ELSE [NewProc("-", FALSE) EXCEPT !.state = "gone"]

Collect(tab, refs) ==
  [pid \in DOMAIN tab |-> IF pid \in refs THEN tab[pid] ELSE Forgotten(tab[pid])]

\* No process: a pid not yet given out, or a forgotten process that has exited.
NoProc == [NewProc("-", FALSE) EXCEPT !.state = "gone"]

\* The pid the OS gives the process of config i in the current
\* start_all_programs call (any unused number would do).
NewPid(i) == (budget.started - 1) * Len(program_configs) + i

\* The table after a step that drops handles and sends no signal.
DropHandles == ostab' = Collect(ostab, Referenced')

\* The pids whose state the next step of some thread reads: a process exit
\* commutes with every other step, so an exit is taken only where it can be
\* observed.  The watch target is observed for as long as the polling loop
\* runs.
Observed ==
  {launch[i].pid : i \in {j \in 1..Len(launch) :
       \/ launch[j].pc = "L110"
       \/ launch[j].pc = "L128" /\ ~program_configs[j].starts_in_tray}}
    \cup {tp[t].pid : t \in {u \in Threads :
                               pc[u] \in {"tp339", "tp343", "tp347", "tp348", "tp356"}}}
    \cup (IF pc["watch"] \in {"w141", "w143"} THEN {watch.target} ELSE {})
    \cup (IF pc["main"] = "wi224" THEN {main_program_proc} ELSE {})
    \cup (IF pc["main"] = "run284" THEN {mgr.main_program_info} ELSE {})

\* A running process exits on its own (the user closes it, it crashes).
ProcExit(pid) ==
  /\ pid \in DOMAIN ostab
  /\ pid \in Observed
  /\ Running(pid)
  /\ ostab' = [ostab EXCEPT ![pid].state = "exited"]
  /\ watch' = IF watch.target = pid /\ pc["watch"] \in {"w141", "w143"}
              THEN [watch EXCEPT !.died = TRUE] ELSE watch
  /\ UNCHANGED << cfgVars, pmVars, saVars, thVars, mgr, histVars >>

\* ---- call history of the main thread --------------------------------------
NoCall == [op |-> "none", name |-> "-", ret |-> FALSE, sig |-> FALSE,
           mut |-> FALSE, err |-> FALSE, tracked |-> FALSE, done |-> TRUE,
           names |-> << >>]
Call(o, n) == [NoCall EXCEPT !.op = o, !.name = n, !.done = FALSE]

\* What is kept of the call before the one now made: all of it when the same
\* terminate_program(n) is called again, otherwise which operation it was.
Previous(o, n) ==
  IF o = "terminate" /\ cur.op = o /\ cur.name = n
  THEN cur ELSE [NoCall EXCEPT !.op = cur.op]

NoTp == [name |-> "-", pid |-> 0, sig |-> FALSE, mut |-> FALSE, err |-> FALSE]
NoTa == [active |-> FALSE, names |-> << >>, entry |-> {}, called |-> {}]
NoSa == [mainIdx |-> 0, pidBase |-> 0, entryEmpty |-> TRUE, mainFailed |-> FALSE,
         running |-> FALSE]
NoLaunch == [pc |-> "idle", pid |-> 0, ok |-> FALSE, minimized |-> FALSE]

\* No minimization call is followed.
NoMz ==
  [call |-> "none", pc |-> "idle", script |-> << "min" >>,
   imax |-> 0, idelay |-> 0, max_attempts |-> 0, retry_delay |-> 0,
   timeout_seconds |-> 0, starts_in_tray |-> FALSE, alive |-> TRUE,
   attempt |-> 0, iattempt |-> 0, success |-> FALSE, resp |-> "none",
   iret |-> FALSE, ret |-> FALSE, done |-> FALSE, start_time |-> 0, now |-> 0,
   enums |-> 0, shows |-> 0, queries |-> 0, checks |-> 0, sleeps |-> 0,
   found |-> 0, requested |-> 0]

\* iRacingWatcher.__init__, lines 35-39: no target, the stop event clear, no
\* polling thread; the callback registered is the manager's _on_iracing_exit,
\* and the OS answers every liveness query.  Of the session: the callbacks made, whether the target died while it was
\* polled, whether stop was signalled while the loop was polling, whether a
\* liveness query failed, whether the callback raised.
NoWatch ==
  [target |-> 0, stop |-> FALSE, process_terminated |-> FALSE,
   session |-> 0, cb |-> 0, died |-> FALSE, stopFirst |-> FALSE,
   callback |-> "manager", queries |-> "reliable", qerr |-> FALSE,
   raised |-> FALSE]

\* iRacingManager.__init__, lines 72-76, and the locals of run(): no watcher, no
\* main program info, neither event set; how far start_programs has come, the
\* signal delivered, where _cleanup returns to, and the exit code.
NoMgr ==
  [stop_event |-> FALSE, cleanup_done |-> FALSE, watcher |-> FALSE,
   main_program_info |-> 0, i |-> 0, helper_failed |-> FALSE,
   main_failed |-> FALSE, sig |-> FALSE, ta_invoked |-> FALSE,
   resume |-> "idle", exit |-> "none"]

Start(b, cfgs, frames, watchers) ==
  /\ budget = b
  /\ mz \in frames
  /\ program_configs \in cfgs
  /\ WINDOWS_IMPORTS_AVAILABLE \in BOOLEAN
  /\ ostab = [pid \in 1..(MaxStartAll * Len(program_configs)) |-> NoProc]
  /\ processes = << >>
  /\ terminated = {}
  /\ main_program_proc = 0
  /\ main_program_name = "-"
  /\ launch = [i \in 1..Len(program_configs) |-> NoLaunch]
  /\ sa = NoSa
  /\ pc = [t \in Threads |-> IF t = "main" THEN "idle" ELSE "none"]
  /\ ta = [t \in Threads |-> NoTa]
  /\ tp = [t \in Threads |-> NoTp]
  /\ watch \in watchers
  /\ mgr = NoMgr
  /\ cur = NoCall
  /\ prev = NoCall

\* The state after ProcessManager() and iRacingManager() are constructed.
Init == Start([startAll |-> MaxStartAll, ops |-> MaxOps, started |-> 0], PairConfigs, {NoMz}, {NoWatch})

\* ==== ProcessManager._handle_program_startup_and_minimization =============
Cfg(i) == program_configs[i]

\* lines 80-105: os.path.exists(path), then subprocess.Popen.  A missing path
\* returns (False, None, name); an exception goes to the handler of line 147.
LaunchSpawn(i) ==
  /\ launch[i].pc = "L80"
  /\ \/ /\ launch' = [launch EXCEPT ![i].pc = "done", ![i].ok = FALSE]
        /\ UNCHANGED << ostab, processes >>
     \/ /\ processes' = Del(processes, Cfg(i).name)
        /\ launch' = [launch EXCEPT ![i].pc = "done", ![i].ok = FALSE]
        /\ UNCHANGED << main_program_proc, watch, tp >>
        /\ DropHandles
     \/ /\ ostab' = [ostab EXCEPT ![NewPid(i)] = NewProc(Cfg(i).name, Cfg(i).is_main)]
        /\ launch' = [launch EXCEPT ![i].pid = NewPid(i),
                                    ![i].pc = IF Cfg(i).is_main THEN "L110" ELSE "L117"]
        /\ UNCHANGED processes
  /\ UNCHANGED << cfgVars, terminated, main_program_proc, main_program_name,
                  sa, thVars, watch, mgr, histVars >>

\* lines 107-113: main only, sleep 2.0 then proc.poll(); a process that has
\* exited returns (False, proc, name) without being recorded.
LaunchSettle(i) ==
  /\ launch[i].pc = "L110"
  /\ launch' = IF Running(launch[i].pid)
               THEN [launch EXCEPT ![i].pc = "L117"]
               ELSE [launch EXCEPT ![i].pc = "done", ![i].ok = FALSE]
  /\ UNCHANGED << cfgVars, pmVars, sa, thVars, watch, mgr, histVars >>
  /\ ostab' = Collect([ostab EXCEPT ![launch[i].pid].settle = TRUE], Referenced')

\* lines 117-122: self.processes[name] = {...}
LaunchRecord(i) ==
  /\ launch[i].pc = "L117"
  /\ processes' = Put(processes, [name |-> Cfg(i).name, pid |-> launch[i].pid,
                                  was_minimized |-> Cfg(i).is_main])
  /\ launch' = [launch EXCEPT ![i].pc = IF Cfg(i).is_main THEN "L143" ELSE "L128"]
  /\ UNCHANGED << cfgVars, terminated, main_program_proc, main_program_name,
                  sa, thVars, watch, mgr, histVars >>
  /\ DropHandles

\* _minimize_program_persistently, lines 165-198: True at once for a program
\* that starts in the tray; otherwise False when the pid is gone, else the
\* outcome of the window manager.
MinimizeOutcomes(pid, tray) ==
  IF tray THEN {TRUE} ELSE IF Running(pid) THEN BOOLEAN ELSE {FALSE}

\* lines 125-138: helpers only, initial delay then persistent minimization.
LaunchMinimize(i) ==
  /\ launch[i].pc = "L128"
  /\ \E r \in MinimizeOutcomes(launch[i].pid, Cfg(i).starts_in_tray) :
       launch' = [launch EXCEPT ![i].pc = "L139", ![i].minimized = r]
  /\ ostab' = [ostab EXCEPT ![launch[i].pid].minimize =
                 IF Cfg(i).starts_in_tray THEN "tray" ELSE "attempted"]
  /\ UNCHANGED << cfgVars, pmVars, sa, thVars, watch, mgr, histVars >>

\* lines 139-140 and 146
LaunchMinimized(i) ==
  /\ launch[i].pc = "L139"
  /\ processes' = IF Has(processes, Cfg(i).name)
                  THEN [processes EXCEPT ![Idx(processes, Cfg(i).name)].was_minimized =
                                             launch[i].minimized]
                  ELSE processes
  /\ launch' = [launch EXCEPT ![i].pc = "done", ![i].ok = TRUE]
  /\ UNCHANGED << cfgVars, terminated, main_program_proc, main_program_name,
                  sa, thVars, watch, mgr, histVars >>
  /\ DropHandles

\* lines 141-146: the is_main branch
LaunchMainRef(i) ==
  /\ launch[i].pc = "L143"
  /\ main_program_proc' = launch[i].pid
  /\ main_program_name' = Cfg(i).name
  /\ launch' = [launch EXCEPT ![i].pc = "done", ![i].ok = TRUE]
  /\ UNCHANGED << cfgVars, processes, terminated, sa, thVars, watch, mgr,
                  histVars >>
  /\ DropHandles

\* ==== ProcessManager.start_all_programs ====================================
\* lines 228-239: the first config flagged is_main is the main program, every
\* other config is a helper.
MainIndex(cfgs) ==
  IF \E i \in 1..Len(cfgs) : cfgs[i].is_main
  THEN CHOOSE i \in 1..Len(cfgs) :
         cfgs[i].is_main /\ \A j \in 1..(i - 1) : ~cfgs[j].is_main
  ELSE 0

HelperIndexes(cfgs) == (1..Len(cfgs)) \ {MainIndex(cfgs)}

\* lines 241-253: the helpers are submitted only after the call that launches
\* the main program has returned.
MainLaunchReturned == sa.mainIdx = 0 \/ launch[sa.mainIdx].pc = "done"

Finish(c) == /\ cur' = [c EXCEPT !.done = TRUE]
             /\ pc' = [pc EXCEPT !["main"] = "idle"]

\* Eager variant: the helpers are handed to the pool together with the main
\* program.
FirstLaunchEager(i) ==
  IF i = MainIndex(program_configs)
  THEN [NoLaunch EXCEPT !.pc = "L80"] ELSE [NoLaunch EXCEPT !.pc = "queued"]

\* lines 241-244: only the main program is launched at first
FirstLaunch(i) ==
  IF i = MainIndex(program_configs)
  THEN [NoLaunch EXCEPT !.pc = "L80"] ELSE NoLaunch

\* Variant that goes on to the helpers whatever the main launch returned.
MainLaunchFailedIgnored == FALSE

\* line 245: if not success
MainLaunchFailed == sa.mainIdx # 0 /\ ~launch[sa.mainIdx].ok

\* A restart of the programs follows a termination call.
MayStartAll ==
  /\ budget.startAll > 0
  /\ cur.op \in {"none", "terminate", "terminateAll"}

\* lines 228-244: partition, then the synchronous launch of the main program
StartAllBegin ==
  /\ pc["main"] = "idle"
  /\ MayStartAll
  /\ watch.session = 0
  /\ budget' = [budget EXCEPT !.startAll = @ - 1, !.started = @ + 1]
  /\ prev' = Previous("startAll", "-")
  /\ cur' = Call("startAll", "-")
  /\ ta' = [ta EXCEPT !["main"] = NoTa]
  /\ sa' = [mainIdx |-> MainIndex(program_configs),
            pidBase |-> budget.started * Len(program_configs),
            entryEmpty |-> Len(processes) = 0, mainFailed |-> FALSE,
            running |-> TRUE]
  /\ launch' = [i \in 1..Len(program_configs) |-> FirstLaunch(i)]
  /\ pc' = [pc EXCEPT !["main"] = "sa244"]
  /\ UNCHANGED << cfgVars, ostab, pmVars, tp, watch, mgr >>

\* lines 244-249 (main launched) and 253-262 (helpers submitted to the pool)
StartAllHelpers ==
  /\ pc["main"] = "sa244"
  /\ MainLaunchReturned
  /\ IF MainLaunchFailed
     THEN /\ sa' = NoSa
          /\ launch' = [i \in 1..Len(program_configs) |-> NoLaunch]
          /\ Finish(cur)
          /\ UNCHANGED << main_program_proc, main_program_name >>
     ELSE /\ main_program_proc' =
               IF sa.mainIdx # 0 THEN launch[sa.mainIdx].pid ELSE main_program_proc
          /\ main_program_name' =
               IF sa.mainIdx # 0 THEN Cfg(sa.mainIdx).name ELSE main_program_name
          /\ launch' = [i \in 1..Len(program_configs) |->
                          IF i \in HelperIndexes(program_configs)
                          THEN [launch[i] EXCEPT !.pc = "queued"] ELSE launch[i]]
          /\ pc' = [pc EXCEPT !["main"] = "sa266"]
          /\ UNCHANGED << sa, cur >>
  /\ UNCHANGED << cfgVars, processes, terminated, ta, tp, watch, mgr,
                  prev, budget >>
  /\ DropHandles

\* ThreadPoolExecutor(max_workers=parallel_workers): a queued launch starts
\* when a worker is free.
Busy == {i \in 1..Len(program_configs) :
           i # sa.mainIdx /\ launch[i].pc \notin {"idle", "queued", "done"}}

LaunchStart(i) ==
  /\ launch[i].pc = "queued"
  /\ Cardinality(Busy) < parallel_workers
  /\ launch' = [launch EXCEPT ![i].pc = "L80"]
  /\ UNCHANGED << cfgVars, ostab, pmVars, sa, thVars, watch, mgr, histVars >>

\* Variant that does not wait for the helpers.
NoneAwaited == TRUE

\* lines 259-274: as_completed over all futures, and the exit of the `with`
\* block of the executor, wait for every helper launch
HelpersCollected == \A i \in HelperIndexes(program_configs) : launch[i].pc = "done"

\* lines 266-278: every future has completed
StartAllReturn ==
  /\ pc["main"] = "sa266"
  /\ HelpersCollected
  /\ sa' = NoSa
  /\ launch' = [i \in 1..Len(program_configs) |-> NoLaunch]
  /\ Finish(cur)
  /\ UNCHANGED << cfgVars, ostab, pmVars, ta, tp, watch, mgr, prev, budget >>

\* lines 147-152: an exception raised after the helper's process was recorded
\* (time.sleep of line 128 with a delay that is no valid duration, the
\* minimization, the update of line 140): the entry is deleted and
\* (False, None, name) returned.
LaunchFailure(i) ==
  /\ launch[i].pc \in {"L128", "L139"}
  /\ processes' = Del(processes, Cfg(i).name)
  /\ launch' = [launch EXCEPT ![i].pc = "done", ![i].ok = FALSE]
  /\ UNCHANGED << cfgVars, terminated, main_program_proc, main_program_name,
                  sa, thVars, watch, mgr, histVars >>
  /\ DropHandles

LaunchStep ==
  \E i \in 1..Len(program_configs) :
    \/ LaunchStart(i)
    \/ LaunchSpawn(i)
    \/ LaunchSettle(i)
    \/ LaunchRecord(i)
    \/ LaunchMinimize(i)
    \/ LaunchMinimized(i)
    \/ LaunchMainRef(i)

\* ==== ProcessManager.terminate_program =====================================
\* Where thread t goes on when terminate_all_programs returns.
AfterTerminateAll(t) ==
  IF t = "watch" THEN (IF watch.session = 0 THEN "done" ELSE "cb260")
  ELSE mgr.resume

\* `return r` of terminate_program on thread t: back into the loop of
\* terminate_all_programs, or back to the caller of the main thread.
TpReturn(t, r, frame) ==
  /\ tp' = [tp EXCEPT ![t] = NoTp]
  /\ IF ta[t].active
     THEN /\ pc' = [pc EXCEPT ![t] = "ta396"]
          /\ UNCHANGED cur
     ELSE /\ pc' = [pc EXCEPT ![t] = "idle"]
          /\ cur' = [cur EXCEPT !.ret = r, !.sig = frame.sig, !.mut = frame.mut,
                                !.err = frame.err, !.done = TRUE]

\* Variant without the termination record.
NeverRecorded(n) == FALSE

\* line 316: program_name in self._terminated_programs
AlreadyTerminated(n) == n \in terminated

\* lines 316-318
TP316(t) ==
  /\ pc[t] = "tp316"
  /\ IF AlreadyTerminated(tp[t].name)
     THEN TpReturn(t, TRUE, tp[t])
     ELSE /\ pc' = [pc EXCEPT ![t] = "tp320"]
          /\ UNCHANGED << tp, cur >>
  /\ UNCHANGED << cfgVars, ostab, pmVars, saVars, ta, watch, mgr, prev, budget >>

\* Variant that takes every name for tracked.
NeverUntracked(n) == FALSE

\* line 320: program_name not in self.processes
NotTracked(n) == ~Has(processes, n)

\* lines 320-322
TP320(t) ==
  /\ pc[t] = "tp320"
  /\ IF NotTracked(tp[t].name)
     THEN TpReturn(t, FALSE, tp[t])
     ELSE /\ pc' = [pc EXCEPT ![t] = "tp325"]
          /\ UNCHANGED << tp, cur >>
  /\ UNCHANGED << cfgVars, ostab, pmVars, saVars, ta, watch, mgr, prev, budget >>

\* line 325: self._terminated_programs.add(program_name)
TP325(t) ==
  /\ pc[t] = "tp325"
  /\ terminated' = terminated \cup {tp[t].name}
  /\ tp' = [tp EXCEPT ![t].mut = TRUE]
  /\ pc' = [pc EXCEPT ![t] = "tp327"]
  /\ UNCHANGED << cfgVars, ostab, processes, main_program_proc, main_program_name,
                  saVars, ta, watch, mgr, histVars >>

\* lines 327-333: process_info = self.processes.get(program_name)
TP327(t) ==
  /\ pc[t] = "tp327"
  /\ IF ~Has(processes, tp[t].name)
     THEN TpReturn(t, FALSE, tp[t])
     ELSE /\ tp' = [tp EXCEPT ![t].pid = Get(processes, tp[t].name).pid]
          /\ pc' = [pc EXCEPT ![t] = "tp339"]
          /\ UNCHANGED cur
  /\ UNCHANGED << cfgVars, ostab, pmVars, saVars, ta, watch, mgr, prev, budget >>

\* Variant that goes straight to the forceful kill.
PsutilPathKillFirst == "tp348"

\* lines 343-344: on the psutil path the graceful terminate comes first
PsutilPath == "tp343"

\* lines 339-340 and 352: proc.poll() is None, then the psutil or the basic path
TP339(t) ==
  /\ pc[t] = "tp339"
  /\ pc' = [pc EXCEPT ![t] = IF ~Running(tp[t].pid) THEN "tp364"
                             ELSE IF WINDOWS_IMPORTS_AVAILABLE THEN PsutilPath
                             ELSE "tp356"]
  /\ UNCHANGED << cfgVars, ostab, pmVars, saVars, ta, tp, watch, mgr, histVars >>

\* An OS-level signal request by the call in frame tp[t]: the first one of a
\* call counts the call among those that signalled pid.
Signalled(t, kind, st) ==
  [ostab EXCEPT ![tp[t].pid] =
     [@ EXCEPT !.state = st,
               !.term = IF kind = "term" THEN TRUE ELSE @,
               !.kill = IF kind = "kill" THEN TRUE ELSE @,
               !.sigCalls = IF tp[t].sig THEN @ ELSE @ + 1]]

\* lines 342-344 and 349-351: psutil.Process(pid).terminate().  A process that
\* is gone raises NoSuchProcess (passed over); a refusal by the OS
\* (psutil.AccessDenied) goes to the handler of line 368.  The signalled
\* process may or may not have exited by the time terminate() returns.
TP343(t) ==
  /\ pc[t] = "tp343"
  /\ IF ~Running(tp[t].pid)
     THEN /\ pc' = [pc EXCEPT ![t] = "tp364"]
          /\ UNCHANGED << ostab, tp >>
     ELSE \/ \E st \in {"running", "exited"} :
               /\ ostab' = Signalled(t, "term", st)
               /\ tp' = [tp EXCEPT ![t].sig = TRUE]
               /\ pc' = [pc EXCEPT ![t] = "tp347"]
          \/ /\ ostab' = Signalled(t, "term", "running")
             /\ tp' = [tp EXCEPT ![t].sig = TRUE, ![t].err = TRUE]
             /\ pc' = [pc EXCEPT ![t] = "tp371"]
  /\ UNCHANGED << cfgVars, pmVars, saVars, ta, watch, mgr, histVars >>

\* line 347: if proc.poll() is None
TP347(t) ==
  /\ pc[t] = "tp347"
  /\ pc' = [pc EXCEPT ![t] = IF Running(tp[t].pid) THEN "tp348" ELSE "tp364"]
  /\ UNCHANGED << cfgVars, ostab, pmVars, saVars, ta, tp, watch, mgr, histVars >>

\* lines 348-351: process.kill()
TP348(t) ==
  /\ pc[t] = "tp348"
  /\ IF ~Running(tp[t].pid)
     THEN /\ pc' = [pc EXCEPT ![t] = "tp364"]
          /\ UNCHANGED << ostab, tp >>
     ELSE \/ /\ ostab' = Signalled(t, "kill", "exited")
             /\ tp' = [tp EXCEPT ![t].sig = TRUE]
             /\ pc' = [pc EXCEPT ![t] = "tp364"]
          \/ /\ ostab' = Signalled(t, "kill", "running")
             /\ tp' = [tp EXCEPT ![t].sig = TRUE, ![t].err = TRUE]
             /\ pc' = [pc EXCEPT ![t] = "tp371"]
  /\ UNCHANGED << cfgVars, pmVars, saVars, ta, watch, mgr, histVars >>

\* lines 353-360: basic path, proc.terminate() with OSError passed over
TP356(t) ==
  /\ pc[t] = "tp356"
  /\ IF ~Running(tp[t].pid)
     THEN UNCHANGED << ostab, tp >>
     ELSE /\ \E st \in {"running", "exited"} : ostab' = Signalled(t, "term", st)
          /\ tp' = [tp EXCEPT ![t].sig = TRUE]
  /\ pc' = [pc EXCEPT ![t] = "tp364"]
  /\ UNCHANGED << cfgVars, pmVars, saVars, ta, watch, mgr, histVars >>

\* lines 364-366 (return True) and 368-373 (the handler, return False)
TPRemove(t, label, r) ==
  /\ pc[t] = label
  /\ processes' = Del(processes, tp[t].name)
  /\ TpReturn(t, r, [tp[t] EXCEPT !.mut = TRUE])
  /\ UNCHANGED << cfgVars, terminated, main_program_proc, main_program_name,
                  saVars, ta, watch, mgr, prev, budget >>
  /\ DropHandles

TP364(t) == TPRemove(t, "tp364", TRUE)
TP371(t) == TPRemove(t, "tp371", FALSE)

TerminateProgramStep(t) ==
  \/ TP316(t) \/ TP320(t) \/ TP325(t) \/ TP327(t) \/ TP339(t)
  \/ TP343(t) \/ TP347(t) \/ TP348(t) \/ TP356(t) \/ TP364(t) \/ TP371(t)

\* ==== ProcessManager.terminate_all_programs ================================
\* Variant without the emptiness check at entry.
NeverEmpty == FALSE

\* line 387: if not self.processes
NothingTracked == Len(processes) = 0

\* line 398: the names terminate_program is called for
ToTerminate(n) == Has(processes, n) /\ n \notin terminated

TaReturn(t) ==
  /\ pc' = [pc EXCEPT ![t] = AfterTerminateAll(t)]
  /\ IF t = "main" THEN cur' = [cur EXCEPT !.done = TRUE] ELSE UNCHANGED cur

\* lines 387-389
TA387(t) ==
  /\ pc[t] = "ta387"
  /\ IF NothingTracked
     THEN /\ ta' = [ta EXCEPT ![t].active = FALSE]
          /\ TaReturn(t)
     ELSE /\ ta' = [ta EXCEPT ![t].entry = KeySet(processes)]
          /\ pc' = [pc EXCEPT ![t] = "ta394"]
          /\ UNCHANGED cur
  /\ UNCHANGED << cfgVars, ostab, pmVars, saVars, tp, watch, mgr, prev, budget >>

\* line 394: program_names = list(self.processes.keys())
TA394(t) ==
  /\ pc[t] = "ta394"
  /\ ta' = [ta EXCEPT ![t].names = Keys(processes)]
  /\ pc' = [pc EXCEPT ![t] = "ta396"]
  /\ UNCHANGED << cfgVars, ostab, pmVars, saVars, tp, watch, mgr, histVars >>

\* lines 396-399: the loop over the snapshot
TA396(t) ==
  /\ pc[t] = "ta396"
  /\ IF ta[t].names = << >>
     THEN /\ pc' = [pc EXCEPT ![t] = "ta402"]
          /\ UNCHANGED << ta, tp >>
     ELSE LET n == Head(ta[t].names) IN
          IF ToTerminate(n)
          THEN /\ ta' = [ta EXCEPT ![t].names = Tail(@), ![t].called = @ \cup {n}]
               /\ tp' = [tp EXCEPT ![t] = [NoTp EXCEPT !.name = n]]
               /\ pc' = [pc EXCEPT ![t] = "tp316"]
          ELSE /\ ta' = [ta EXCEPT ![t].names = Tail(@)]
               /\ UNCHANGED << tp, pc >>
  /\ UNCHANGED << cfgVars, ostab, pmVars, saVars, watch, mgr, histVars >>

\* line 402: self.processes.clear()
TA402(t) ==
  /\ pc[t] = "ta402"
  /\ processes' = << >>
  /\ pc' = [pc EXCEPT ![t] = "ta403"]
  /\ UNCHANGED << cfgVars, terminated, main_program_proc, main_program_name,
                  saVars, ta, tp, watch, mgr, histVars >>
  /\ DropHandles

\* lines 403-421: self._terminated_programs.clear(); the loop over
\* helper_app_futures only waits and changes nothing that is modelled.
TA403(t) ==
  /\ pc[t] = "ta403"
  /\ terminated' = {}
  /\ ta' = [ta EXCEPT ![t].active = FALSE]
  /\ TaReturn(t)
  /\ UNCHANGED << cfgVars, ostab, processes, main_program_proc, main_program_name,
                  saVars, tp, watch, mgr, prev, budget >>

TerminateAllStep(t) ==
  \/ TA387(t) \/ TA394(t) \/ TA396(t) \/ TA402(t) \/ TA403(t)

\* ==== ProcessManager queries ================================================
\* Variant that takes every tracked program for running.
TrackedIsRunning(n) == Has(processes, n)

\* is_program_running, lines 433-437
is_program_running(n) == Has(processes, n) /\ Running(Get(processes, n).pid)

\* get_running_programs, lines 446-454: the names it returns
get_running_programs == { n \in KeySet(processes) : is_program_running(n) }

\* ==== calls made by the main thread ========================================
\* The first call of a run is start_all_programs.
MayCall == budget.ops > 0 /\ cur.op # "none" /\ ~mgr.cleanup_done

\* terminate_program(n) called directly
TerminateCall(n) ==
  /\ pc["main"] = "idle"
  /\ MayCall
  /\ \E i \in 1..Len(program_configs) : Cfg(i).name = n
  /\ budget' = [budget EXCEPT !.ops = @ - 1]
  /\ prev' = Previous("terminate", n)
  /\ cur' = [Call("terminate", n) EXCEPT !.tracked = Has(processes, n)]
  /\ tp' = [tp EXCEPT !["main"] = [NoTp EXCEPT !.name = n]]
  /\ ta' = [ta EXCEPT !["main"] = NoTa]
  /\ pc' = [pc EXCEPT !["main"] = "tp316"]
  /\ UNCHANGED << cfgVars, ostab, pmVars, saVars, watch, mgr >>

\* terminate_all_programs() called directly
TerminateAllCall ==
  /\ pc["main"] = "idle"
  /\ MayCall
  /\ budget' = [budget EXCEPT !.ops = @ - 1]
  /\ prev' = Previous("terminateAll", "-")
  /\ cur' = [Call("terminateAll", "-") EXCEPT !.tracked = ~NothingTracked]
  /\ ta' = [ta EXCEPT !["main"] = [NoTa EXCEPT !.active = TRUE]]
  /\ pc' = [pc EXCEPT !["main"] = "ta387"]
  /\ UNCHANGED << cfgVars, ostab, pmVars, saVars, tp, watch, mgr >>

\* get_running_programs() called directly, lines 446-454: the names whose
\* process has not exited are returned in the order of the map, the other
\* entries are deleted.
GetRunningProgramsCall ==
  /\ pc["main"] = "idle"
  /\ MayCall
  /\ budget' = [budget EXCEPT !.ops = @ - 1]
  /\ prev' = Previous("running", "-")
  /\ processes' = SelectSeq(processes, LAMBDA e : is_program_running(e.name))
  /\ cur' = [Call("running", "-") EXCEPT
               !.done = TRUE, !.mut = (processes' # processes),
               !.names = SelectSeq(Keys(processes), is_program_running)]
  /\ UNCHANGED << cfgVars, terminated, main_program_proc, main_program_name,
                  saVars, thVars, watch, mgr >>
  /\ DropHandles

\* A tracked process exits on its own while the main thread is between two
\* calls: the next call may be one that polls every tracked process.
TrackedExit ==
  /\ pc["main"] = "idle"
  /\ MayCall
  /\ \E i \in 1..Len(processes) :
       /\ Running(processes[i].pid)
       /\ ostab' = [ostab EXCEPT ![processes[i].pid].state = "exited"]
  /\ UNCHANGED << cfgVars, pmVars, saVars, thVars, watch, mgr, histVars >>

\* terminate_all_programs() entered by a second thread while the helper
\* launches of start_all_programs are in flight (the case of lines 405-408,
\* "if terminate_all is called early").
EarlyTerminateAll ==
  /\ pc["watch"] = "none"
  /\ pc["main"] = "sa266"
  /\ ta' = [ta EXCEPT !["watch"] = [NoTa EXCEPT !.active = TRUE]]
  /\ pc' = [pc EXCEPT !["watch"] = "ta387"]
  /\ UNCHANGED << cfgVars, ostab, pmVars, saVars, tp, watch, mgr, histVars >>

\* ==== iRacingWatcher =======================================================
\* Variant that takes the polling thread for ended at any time.
ThreadNeverAlive == FALSE

\* watch_thread.is_alive()
ThreadAlive == pc["watch"] \notin {"none", "done"}

\* The polling loop has not yet left through either exit.
Polling == pc["watch"] \in {"w141", "w143"}

\* lines 89-90 and 96-97: the target's process entry exists (is_running(), no
\* NoSuchProcess)
ProcessEntryExists(pid) == ostab[pid].state # "gone"

\* Variant that takes a terminated, unreaped process for alive.
ZombieIsAlive(pid) == TRUE

\* lines 93-94: status != "zombie"; a process that has exited and whose
\* handle is still held is terminated but unreaped
NotZombie(pid) == ostab[pid].state # "exited"

\* Variant whose liveness check never finds the target gone.
TargetAlwaysAlive == TRUE

\* is_process_running, lines 84-97, when the queries answer
TargetAlive ==
  /\ watch.target # 0
  /\ ProcessEntryExists(watch.target)
  /\ NotZombie(watch.target)

\* Variant that takes a failed query for a live target.
QueryErrorIsAlive == TRUE

\* lines 98-100: except Exception, return False
OnQueryError == FALSE

\* How a liveness query can end: with an answer or, where the OS queries can
\* fail, on a live target with an error.
QueryOutcomes ==
  IF watch.queries = "flaky" /\ TargetAlive THEN {"answer", "error"}
  ELSE {"answer"}

\* is_process_running, lines 84-100: what it returns when the query ends as o
is_process_running(o) == IF o = "error" THEN OnQueryError ELSE TargetAlive

\* lines 102-115: start_watching spawns the polling thread unless there is no
\* target or a polling thread is alive.
StartWatching ==
  IF watch.target = 0 \/ ThreadAlive
  THEN UNCHANGED << watch, pc >>
  ELSE /\ watch' = [watch EXCEPT !.stop = FALSE, !.process_terminated = FALSE,
                                 !.session = @ + 1, !.cb = 0, !.died = FALSE,
                                 !.stopFirst = FALSE, !.qerr = FALSE,
                                 !.raised = FALSE]
       /\ pc' = [pc EXCEPT !["watch"] = "w141", !["main"] = "idle"]

\* lines 121-126 of stop_watching: nothing when no polling thread is alive,
\* else the stop event is set.
StopSignal ==
  IF ThreadAlive
  THEN [watch EXCEPT !.stop = TRUE, !.stopFirst = @ \/ Polling]
  ELSE watch

\* Variant of the loop that sleeps through a stop request.
LoopIgnoresStop == FALSE

\* lines 141 and 153-155: self._stop_event.is_set(), and
\* self._stop_event.wait(timeout=1.0) returning True
LoopSeesStop == watch.stop

\* lines 141 and 152-155: while not self._stop_event.is_set(), and the wait of
\* one interval that ends the loop when the event is set.
W141 ==
  /\ pc["watch"] = "w141"
  /\ pc' = [pc EXCEPT !["watch"] = IF LoopSeesStop THEN "w158" ELSE "w143"]
  /\ UNCHANGED << cfgVars, ostab, pmVars, saVars, ta, tp, watch, mgr, histVars >>

\* lines 142-146: one liveness check
W143 ==
  /\ pc["watch"] = "w143"
  /\ \E o \in QueryOutcomes :
       IF is_process_running(o)
       THEN /\ pc' = [pc EXCEPT !["watch"] = "w141"]
            /\ watch' = [watch EXCEPT !.qerr = @ \/ (o = "error")]
       ELSE /\ pc' = [pc EXCEPT !["watch"] = "w158"]
            /\ watch' = [watch EXCEPT !.process_terminated = TRUE,
                                      !.qerr = @ \/ (o = "error")]
  /\ UNCHANGED << cfgVars, ostab, pmVars, saVars, ta, tp, mgr, histVars >>

\* Variant that never runs the callback.
CallbackNever == FALSE

\* line 158: if process_terminated and self.on_exit_callback
CallbackDue == watch.process_terminated /\ watch.callback # "none"

\* Variant in which an exception of the callback ends the thread.
ExceptionEndsThread == "crashed"

\* lines 162-163: except Exception, logged; the thread goes on at line 165
ExceptionCaught == "w165"

\* Variant of the callback that sets the manager's stop event at its start.
EventSetAtCallbackStart == TRUE

\* _on_iracing_exit lines 251-260: the manager's stop event is set by the
\* last statement, not before terminate_all_programs is called (line 257)
EventSetBeforeTerminateAll == FALSE

\* Variant that comes back to the callback check.
AfterCallbackAgain == "w158"

\* line 165, where the thread goes on after the callback
AfterCallback == "w165"

\* lines 158-163.  The manager's callback (_on_iracing_exit lines 253-257)
\* starts, calls stop_watching on the polling thread itself (signal only, no
\* join) and enters terminate_all_programs; another callback returns or
\* raises an exception, which is caught.
W158 ==
  /\ pc["watch"] = "w158"
  /\ IF ~CallbackDue
     THEN /\ pc' = [pc EXCEPT !["watch"] = "w165"]
          /\ UNCHANGED << watch, ta, mgr >>
     ELSE IF watch.callback = "manager"
     THEN /\ watch' = [watch EXCEPT !.cb = @ + 1, !.stop = TRUE]
          /\ ta' = [ta EXCEPT !["watch"] = [NoTa EXCEPT !.active = TRUE]]
          /\ pc' = [pc EXCEPT !["watch"] = "ta387"]
          /\ mgr' = [mgr EXCEPT !.stop_event = @ \/ EventSetBeforeTerminateAll]
     ELSE IF watch.callback = "raises"
     THEN /\ watch' = [watch EXCEPT !.cb = @ + 1, !.raised = TRUE]
          /\ pc' = [pc EXCEPT !["watch"] = ExceptionCaught]
          /\ UNCHANGED << ta, mgr >>
     ELSE /\ watch' = [watch EXCEPT !.cb = @ + 1]
          /\ pc' = [pc EXCEPT !["watch"] = AfterCallback]
          /\ UNCHANGED << ta, mgr >>
  /\ UNCHANGED << cfgVars, ostab, pmVars, saVars, tp, histVars >>

\* _on_iracing_exit line 260: self._stop_event.set()
CB260 ==
  /\ pc["watch"] = "cb260"
  /\ mgr' = [mgr EXCEPT !.stop_event = TRUE]
  /\ pc' = [pc EXCEPT !["watch"] = AfterCallback]
  /\ UNCHANGED << cfgVars, ostab, pmVars, saVars, ta, tp, watch, histVars >>

\* lines 165-167: the stop event is set and the thread ends
W165 ==
  /\ pc["watch"] = "w165"
  /\ watch' = [watch EXCEPT !.stop = TRUE]
  /\ pc' = [pc EXCEPT !["watch"] = "done"]
  /\ UNCHANGED << cfgVars, ostab, pmVars, saVars, ta, tp, mgr, histVars >>

\* Every step of the polling thread, the callback it runs included.
WatchThread ==
  \/ W141 \/ W143 \/ W158 \/ CB260 \/ W165
  \/ TerminateAllStep("watch")
  \/ TerminateProgramStep("watch")

\* ==== iRacingManager, calls of the main thread once the programs run =======
\* watch_iracing, line 214: there is a main program to monitor
WatchIracingCall ==
  /\ pc["main"] = "idle"
  /\ cur.op = "startAll"
  /\ main_program_proc # 0
  /\ UNCHANGED budget
  /\ prev' = Previous("watch", "-")
  /\ cur' = Call("watch", "-")
  /\ pc' = [pc EXCEPT !["main"] = "wi224"]
  /\ UNCHANGED << cfgVars, ostab, pmVars, saVars, ta, tp, watch, mgr >>

\* watch_iracing lines 221-229: find_iracing_process (psutil.pid_exists) and
\* start_watching
WI224 ==
  /\ pc["main"] = "wi224"
  /\ IF Running(main_program_proc)
     THEN /\ watch' = [watch EXCEPT !.target = main_program_proc, !.stop = FALSE,
                                    !.session = @ + 1]
          /\ pc' = [pc EXCEPT !["watch"] = "w141", !["main"] = "idle"]
     ELSE /\ pc' = [pc EXCEPT !["main"] = "idle"]
          /\ UNCHANGED watch
  /\ cur' = [cur EXCEPT !.done = TRUE, !.ret = Running(main_program_proc)]
  /\ UNCHANGED << cfgVars, ostab, pmVars, saVars, ta, tp, mgr, prev, budget >>

\* watch_iracing has returned: the watcher of line 221 exists, with a target
\* or, when find_iracing_process failed, without one.
WatcherCreated ==
  watch.target # 0 \/ (cur.op \in {"watch", "find"} /\ cur.done)

\* iRacingWatcher.start_watching called again on the same watcher
StartWatchingCall ==
  /\ pc["main"] = "idle"
  /\ MayCall
  /\ WatcherCreated
  /\ budget' = [budget EXCEPT !.ops = @ - 1]
  /\ prev' = Previous("start", "-")
  /\ cur' = [Call("start", "-") EXCEPT !.done = TRUE, !.tracked = ThreadAlive]
  /\ StartWatching
  /\ UNCHANGED << cfgVars, ostab, pmVars, saVars, ta, tp, mgr >>

\* iRacingWatcher.stop_watching called from the main thread, lines 121-126;
\* the join of lines 129-134 follows when the thread is alive.
StopWatchingCall ==
  /\ pc["main"] = "idle"
  /\ MayCall
  /\ watch.target # 0
  /\ budget' = [budget EXCEPT !.ops = @ - 1]
  /\ prev' = Previous("stop", "-")
  /\ watch' = StopSignal
  /\ IF ThreadAlive
     THEN /\ cur' = Call("stop", "-")
          /\ pc' = [pc EXCEPT !["main"] = "sw132"]
     ELSE /\ cur' = [Call("stop", "-") EXCEPT !.done = TRUE]
          /\ UNCHANGED pc
  /\ UNCHANGED << cfgVars, ostab, pmVars, saVars, ta, tp, mgr >>

\* Variant of the join that waits for the thread however long it takes.
JoinUnbounded == FALSE

\* line 132: join(timeout=2.0) gives up after two seconds
JoinTimesOut == TRUE

\* lines 129-134: watch_thread.join(timeout=2.0) returns when the thread has
\* ended or when the timeout has passed.  In _cleanup the call of
\* terminate_all_programs follows (lines 139-141).
SW132 ==
  /\ pc["main"] = "sw132"
  /\ JoinTimesOut \/ ~ThreadAlive
  /\ IF cur.op = "cleanup"
     THEN /\ ta' = [ta EXCEPT !["main"] = [NoTa EXCEPT !.active = TRUE]]
          /\ pc' = [pc EXCEPT !["main"] = "ta387"]
          /\ UNCHANGED cur
     ELSE /\ Finish(cur)
          /\ UNCHANGED ta
  /\ UNCHANGED << cfgVars, ostab, pmVars, saVars, tp, watch, mgr, prev, budget >>

\* iRacingManager._cleanup, lines 123-135: once only; the watcher, if one was
\* created, is stopped first.
CleanupCall ==
  /\ pc["main"] = "idle"
  /\ MayCall
  /\ ~mgr.cleanup_done
  /\ mgr' = [mgr EXCEPT !.cleanup_done = TRUE]
  /\ budget' = [budget EXCEPT !.ops = @ - 1]
  /\ prev' = Previous("cleanup", "-")
  /\ cur' = [Call("cleanup", "-") EXCEPT !.tracked = ~NothingTracked]
  /\ watch' = IF watch.target # 0 THEN StopSignal ELSE watch
  /\ pc' = [pc EXCEPT !["main"] = "sw132"]
  /\ UNCHANGED << cfgVars, ostab, pmVars, saVars, ta, tp >>

Environment == \E pid \in DOMAIN ostab : ProcExit(pid)

\* ==== iRacingManager.run =====================================================
\* ConfigManager._validate_programs_list, lines 98-101 and _identify_main_program:
\* the last program flagged is_main, or the last program when none is flagged.
ManagerMain(cfgs) ==
  IF \E i \in 1..Len(cfgs) : cfgs[i].is_main
  THEN CHOOSE i \in 1..Len(cfgs) :
         cfgs[i].is_main /\ \A j \in (i + 1)..Len(cfgs) : ~cfgs[j].is_main
  ELSE Len(cfgs)

\* start_programs line 168: the programs that are not the main program, in
\* the order of the configuration (their indexes)
OtherPrograms ==
  SelectSeq([i \in 1..Len(program_configs) |-> i],
            LAMBDA i : i # ManagerMain(program_configs))

\* Variant of a successful start that records nothing.
StartedUnrecorded(i) == processes' = processes

\* start_program(program) returning (True, proc): the process is spawned and
\* recorded in self.processes.
Started(i) ==
  processes' = Put(processes, [name |-> Cfg(i).name, pid |-> NewPid(i),
                               was_minimized |-> TRUE])

\* The process table after a start_program(program) call for config i: with
\* the new process of subprocess.Popen when the call recorded one.
Spawn(i) ==
  ostab' = IF processes' = processes THEN ostab
           ELSE Collect([ostab EXCEPT ![NewPid(i)] = NewProc(Cfg(i).name, Cfg(i).is_main)],
                        Referenced')

\* run(), line 277: the call of start_programs
RunBegin ==
  /\ pc["main"] = "idle"
  /\ cur.op = "none"
  /\ mgr.exit = "none"
  /\ cur' = Call("run", "-")
  /\ mgr' = [mgr EXCEPT !.i = 1]
  /\ pc' = [pc EXCEPT !["main"] = "sp172"]
  /\ UNCHANGED << cfgVars, ostab, pmVars, saVars, ta, tp, watch, prev, budget >>

\* start_programs lines 172-179: the helper programs, one after the other; the
\* first one that cannot be started ends start_programs with False.
SP172 ==
  /\ pc["main"] = "sp172"
  /\ IF mgr.i > Len(OtherPrograms)
     THEN /\ pc' = [pc EXCEPT !["main"] = "sp184"]
          /\ UNCHANGED << mgr, processes >>
     ELSE \/ /\ mgr' = [mgr EXCEPT !.i = @ + 1]
             /\ Started(OtherPrograms[mgr.i])
             /\ UNCHANGED pc
          \/ /\ mgr' = [mgr EXCEPT !.helper_failed = TRUE]
             /\ pc' = [pc EXCEPT !["main"] = "run278"]
             /\ UNCHANGED processes
  /\ UNCHANGED << cfgVars, terminated, main_program_proc, main_program_name,
                  saVars, ta, tp, watch, histVars >>
  /\ IF mgr.i > Len(OtherPrograms) THEN UNCHANGED ostab
     ELSE Spawn(OtherPrograms[mgr.i])

\* start_programs lines 183-199: the main program last; main_program_info is
\* set when it has started (retry_minimize_all changes nothing that is tracked)
SP184 ==
  /\ pc["main"] = "sp184"
  /\ \/ /\ mgr' = [mgr EXCEPT !.main_program_info = NewPid(ManagerMain(program_configs))]
        /\ Started(ManagerMain(program_configs))
        /\ pc' = [pc EXCEPT !["main"] = "run284"]
     \/ /\ mgr' = [mgr EXCEPT !.main_failed = TRUE]
        /\ pc' = [pc EXCEPT !["main"] = "run278"]
        /\ UNCHANGED processes
  /\ UNCHANGED << cfgVars, terminated, main_program_proc, main_program_name,
                  saVars, ta, tp, watch, histVars >>
  /\ Spawn(ManagerMain(program_configs))

\* _cleanup lines 123-135, entered by the main thread that goes on at label r
\* when _cleanup returns: once only; the watcher, if there is one, is stopped
\* first (stop_watching lines 121-126).
CleanupEntered(r) ==
  IF mgr.cleanup_done
  THEN /\ pc' = [pc EXCEPT !["main"] = r]
       /\ UNCHANGED << mgr, watch >>
  ELSE /\ mgr' = [mgr EXCEPT !.cleanup_done = TRUE, !.resume = r]
       /\ watch' = IF mgr.watcher THEN StopSignal ELSE watch
       /\ pc' = [pc EXCEPT !["main"] =
                   IF mgr.watcher /\ ThreadAlive THEN "cl132" ELSE "cl139"]

\* run() lines 278-280: start_programs returned False, _cleanup is called
RUN278 ==
  /\ pc["main"] = "run278"
  /\ CleanupEntered("run281")
  /\ UNCHANGED << cfgVars, ostab, pmVars, saVars, ta, tp, histVars >>

\* stop_watching lines 129-134, called by _cleanup: join(timeout=2.0) returns
\* when the polling thread has ended or the timeout has passed
CL132 ==
  /\ pc["main"] = "cl132"
  /\ pc' = [pc EXCEPT !["main"] = "cl139"]
  /\ UNCHANGED << cfgVars, ostab, pmVars, saVars, ta, tp, watch, mgr, histVars >>

\* _cleanup lines 139-141: terminate_all_programs is called
CL139 ==
  /\ pc["main"] = "cl139"
  /\ mgr' = [mgr EXCEPT !.ta_invoked = TRUE]
  /\ ta' = [ta EXCEPT !["main"] = [NoTa EXCEPT !.active = TRUE]]
  /\ pc' = [pc EXCEPT !["main"] = "ta387"]
  /\ UNCHANGED << cfgVars, ostab, pmVars, saVars, tp, watch, histVars >>

\* The interpreter has exited with code c; the finalizer registered at line 76
\* has run before (a second _cleanup does nothing).
Exited(c) ==
  /\ mgr' = [mgr EXCEPT !.exit = c, !.resume = "idle"]
  /\ pc' = [pc EXCEPT !["main"] = "exited"]
  /\ UNCHANGED << cfgVars, ostab, pmVars, saVars, ta, tp, watch, histVars >>

\* run() line 281: sys.exit(1)
RUN281 == pc["main"] = "run281" /\ Exited("1")

\* run() line 284, watch_iracing lines 214-229: the watcher is created, the
\* main process looked up by its pid, and the polling thread started
RUN284 ==
  /\ pc["main"] = "run284"
  /\ mgr' = [mgr EXCEPT !.watcher = TRUE]
  /\ IF Running(mgr.main_program_info)
     THEN /\ watch' = [watch EXCEPT !.target = mgr.main_program_info,
                                    !.stop = FALSE, !.session = @ + 1]
          /\ pc' = [pc EXCEPT !["watch"] = "w141", !["main"] = "run288"]
     ELSE /\ pc' = [pc EXCEPT !["main"] = "run288"]
          /\ UNCHANGED watch
  /\ UNCHANGED << cfgVars, ostab, pmVars, saVars, ta, tp, histVars >>

\* Variant that looks at the polling thread only.
is_watching_thread_only == ThreadAlive

\* iRacingWatcher.is_watching, line 171
is_watching == ~watch.stop /\ ThreadAlive

\* run() lines 288-296: the main thread waits for the stop event only while
\* the watcher is watching
RUN288 ==
  /\ pc["main"] = "run288"
  /\ pc' = [pc EXCEPT !["main"] = IF mgr.watcher /\ is_watching THEN "run290"
                                  ELSE "run298"]
  /\ UNCHANGED << cfgVars, ostab, pmVars, saVars, ta, tp, watch, mgr, histVars >>

\* run() line 290: self._stop_event.wait()
RUN290 ==
  /\ pc["main"] = "run290"
  /\ mgr.stop_event
  /\ pc' = [pc EXCEPT !["main"] = "run298"]
  /\ UNCHANGED << cfgVars, ostab, pmVars, saVars, ta, tp, watch, mgr, histVars >>

\* run() line 298 and main(): run returns, the interpreter shuts down and
\* calls the finalizer registered at line 76, _cleanup
RUN298 ==
  /\ pc["main"] = "run298"
  /\ CleanupEntered("atexit")
  /\ UNCHANGED << cfgVars, ostab, pmVars, saVars, ta, tp, histVars >>

\* The finalizer has returned: exit code 0
AtExit == pc["main"] = "atexit" /\ Exited("0")

\* Variant of the handler that does not set the event.
HandlerIgnores == FALSE

\* _signal_handler line 102: self._stop_event.set()
HandlerSets == TRUE

\* SIGINT or SIGTERM is delivered and _signal_handler (lines 83-102) runs, at
\* any point after the handlers are registered (lines 74-75) and before the
\* interpreter has exited.
SignalDelivered ==
  /\ ~mgr.sig
  /\ pc["main"] # "exited"
  /\ mgr' = [mgr EXCEPT !.sig = TRUE, !.stop_event = @ \/ HandlerSets]
  /\ UNCHANGED << cfgVars, ostab, pmVars, saVars, thVars, watch, histVars >>

\* Every step of the main thread in run().
MainThread ==
  \/ RunBegin \/ SP172 \/ SP184 \/ RUN278 \/ RUN281 \/ RUN284 \/ RUN288
  \/ RUN290 \/ RUN298 \/ AtExit \/ CL132 \/ CL139
  \/ TerminateAllStep("main")
  \/ TerminateProgramStep("main")

\* ==== iRacingWatcher used on its own ========================================
\* The watchers constructed: without a callback, with one that returns and
\* with one that raises; on a system whose liveness queries always answer and
\* on one where they can fail.
WatcherInputs ==
  {[NoWatch EXCEPT !.callback = c, !.queries = q] :
     c \in {"none", "returns", "raises"}, q \in {"reliable", "flaky"}}

\* find_iracing_process(process_info), lines 53-82, the first call made on the
\* watcher: with the pid of a process that exists the target is set and True
\* returned, otherwise (no pid, or psutil.pid_exists False) False.
FindCall ==
  /\ pc["main"] = "idle"
  /\ cur.op = "none"
  /\ prev' = Previous("find", "-")
  /\ \E found \in BOOLEAN :
       /\ cur' = [Call("find", "-") EXCEPT !.done = TRUE, !.ret = found]
       /\ IF found
          THEN /\ ostab' = [ostab EXCEPT ![NewPid(1)] = NewProc(Cfg(1).name, TRUE)]
               /\ watch' = [watch EXCEPT !.target = NewPid(1)]
          ELSE UNCHANGED << ostab, watch >>
  /\ UNCHANGED << cfgVars, pmVars, saVars, thVars, mgr, budget >>

\* is_watching() called by the main thread
IsWatchingCall ==
  /\ pc["main"] = "idle"
  /\ cur.op # "none"
  /\ prev' = Previous("is_watching", "-")
  /\ cur' = [Call("is_watching", "-") EXCEPT !.done = TRUE, !.ret = is_watching]
  /\ UNCHANGED << cfgVars, ostab, pmVars, saVars, thVars, watch, mgr, budget >>

\* is_process_running() called by the main thread
IsProcessRunningCall ==
  /\ pc["main"] = "idle"
  /\ cur.op # "none"
  /\ prev' = Previous("is_process_running", "-")
  /\ \E o \in QueryOutcomes :
       cur' = [Call("is_process_running", "-") EXCEPT
                 !.done = TRUE, !.ret = is_process_running(o), !.err = (o = "error")]
  /\ UNCHANGED << cfgVars, ostab, pmVars, saVars, thVars, watch, mgr, budget >>

\* The OS drops the entry of a target that has terminated: its parent (the
\* watcher looks a process up by pid and holds no handle of its own) has
\* collected the exit status.  From then on is_running() is False.
Reaped ==
  /\ watch.target # 0
  /\ ostab[watch.target].state = "exited"
  /\ ostab' = [ostab EXCEPT ![watch.target] = NoProc]
  /\ UNCHANGED << cfgVars, pmVars, saVars, thVars, watch, mgr, histVars >>

\* Every step of the polling thread of a watcher whose callback is not the
\* manager's.
PollingTask == W141 \/ W143 \/ W158 \/ W165

\* ==== WindowManager.minimize_window and ======================================
\* ==== ProcessManager._minimize_program_persistently =========================
\* What the window source reports in one attempt: no window of the pid, windows
\* that are not all minimized at the placement query, windows all minimized,
\* a window whose ShowWindow request fails, or a window that has vanished at
\* its placement query.
Responses == {"none", "notmin", "min", "showerr", "vanished"}

\* The handles find_process_windows returns when the pid has windows.
Handles(r) == IF r = "none" THEN 0 ELSE 2

\* A window source: its report for the first, second, ... enumeration; the last
\* report is repeated from then on.
Scripts == UNION {[1..n -> Responses] : n \in 1..MaxAttempts}

\* The report of enumeration number n.
Response(n) == IF n <= Len(mz.script) THEN mz.script[n] ELSE mz.script[Len(mz.script)]

\* Everything but the frame of the minimization call.
engineVars ==
  << program_configs, WINDOWS_IMPORTS_AVAILABLE, ostab, pmVars, saVars, thVars,
     watch, mgr, histVars >>

\* minimize_window called on its own: window_manager.py line 71
MinimizeCalls ==
  {[NoMz EXCEPT !.call = "minimize", !.pc = "m91", !.script = s,
                !.imax = m, !.idelay = inner_retry_delay] :
     s \in Scripts, m \in 1..MaxAttempts}

\* _minimize_program_persistently called as in line 131-138, its process alive
PersistCalls ==
  {[NoMz EXCEPT !.call = "persist", !.pc = "p165", !.script = s,
                !.max_attempts = m, !.retry_delay = d, !.timeout_seconds = w,
                !.starts_in_tray = tray] :
     s \in Scripts, m \in 1..MaxAttempts, d \in {10, 50}, w \in {10, 20, 150},
     tray \in BOOLEAN}

\* `return r` of minimize_window: to its caller
MwReturn(f, r) ==
  IF f.call = "minimize"
  THEN [f EXCEPT !.pc = "idle", !.iret = r, !.ret = r, !.done = TRUE]
  ELSE [f EXCEPT !.pc = "p190", !.iret = r]

\* The end of attempt f.iattempt without success: the next attempt, or the
\* end of the loop and `return success` (line 139).
MwNextAttempt(f) ==
  IF f.iattempt < f.imax
  THEN [f EXCEPT !.iattempt = @ + 1, !.pc = "m100"]
  ELSE MwReturn(f, f.success)

\* time.sleep(d)
Slept(f, d) == [f EXCEPT !.now = @ + d, !.sleeps = @ + 1]

\* lines 91-97: nothing is attempted without the Windows modules
M91 ==
  /\ mz.pc = "m91"
  /\ mz' = IF ~WINDOWS_IMPORTS_AVAILABLE
           THEN MwReturn(mz, FALSE)
           ELSE [mz EXCEPT !.success = FALSE, !.iattempt = 1, !.pc = "m100"]
  /\ UNCHANGED engineVars

\* lines 100-111: find_process_windows; without windows the attempt ends, after
\* a sleep unless it was the last one
M100 ==
  /\ mz.pc = "m100"
  /\ LET r == Response(mz.enums + 1)
         f == [mz EXCEPT !.enums = @ + 1, !.resp = r, !.found = Handles(r),
                         !.requested = 0]
     IN mz' = IF f.resp # "none"
              THEN [f EXCEPT !.pc = "m114"]
              ELSE IF f.iattempt = f.imax /\ ~f.success
                   THEN MwNextAttempt(f)
                   ELSE MwNextAttempt(Slept(f, f.idelay))
  /\ UNCHANGED engineVars

\* lines 136-137: an exception raised inside the attempt is logged; the for
\* loop goes on with the next attempt, or ends.
AttemptFailed(f) == MwNextAttempt(f)

\* lines 114-117: ShowWindow(hwnd, SW_MINIMIZE) on the windows found, one after
\* the other; a request that raises ends the loop over the handles (the first
\* handle's request here).
M114 ==
  /\ mz.pc = "m114"
  /\ mz' = IF mz.resp = "showerr"
           THEN AttemptFailed([mz EXCEPT !.shows = @ + 1, !.requested = 1])
           ELSE [mz EXCEPT !.shows = @ + 1, !.requested = mz.found, !.pc = "m120"]
  /\ UNCHANGED engineVars

\* Variant that never takes the placement query as a confirmation.
NeverConfirmed(r) == FALSE

\* lines 121-127: every window found reports SW_SHOWMINIMIZED
AllMinimized(r) == r = "min"

\* lines 120-134: the wait, the placement query, and the end of the attempt
M120 ==
  /\ mz.pc = "m120"
  /\ LET f == [Slept(mz, placement_wait) EXCEPT !.queries = @ + 1]
     IN mz' = IF f.resp = "vanished"
              THEN AttemptFailed(f)
              ELSE IF AllMinimized(f.resp)
              THEN MwReturn([f EXCEPT !.success = TRUE], TRUE)
              ELSE IF f.iattempt < f.imax
                   THEN MwNextAttempt(Slept(f, f.idelay))
                   ELSE MwNextAttempt(f)
  /\ UNCHANGED engineVars

\* `return r` of _minimize_program_persistently
MpReturn(f, r) == [f EXCEPT !.pc = "idle", !.ret = r, !.done = TRUE]

\* Variant without the tray short-circuit.
NoShortCircuit == FALSE

\* line 165: if starts_in_tray
TrayShortCircuit == mz.starts_in_tray

\* lines 165-172
P165 ==
  /\ mz.pc = "p165"
  /\ mz' = IF TrayShortCircuit
           THEN MpReturn(mz, TRUE)
           ELSE [mz EXCEPT !.start_time = mz.now, !.attempt = 1, !.pc = "p173"]
  /\ UNCHANGED engineVars

\* lines 172-175 and 197-198: the loop head and the timeout test
P173 ==
  /\ mz.pc = "p173"
  /\ mz' = IF mz.attempt > mz.max_attempts
           THEN MpReturn(mz, FALSE)
           ELSE IF mz.now - mz.start_time > mz.timeout_seconds
                THEN MpReturn(mz, FALSE)
                ELSE [mz EXCEPT !.pc = "p178"]
  /\ UNCHANGED engineVars

\* Variant of the liveness check that never finds the process gone.
PidAlwaysRunning == TRUE

\* _is_pid_running(pid), lines 200-221
is_pid_running == mz.alive

\* lines 178-190: _is_pid_running, then the call of minimize_window
P178 ==
  /\ mz.pc = "p178"
  /\ mz' = IF ~is_pid_running
           THEN MpReturn([mz EXCEPT !.checks = @ + 1], FALSE)
           ELSE [mz EXCEPT !.checks = @ + 1, !.pc = "m91",
                           !.imax = inner_max_attempts, !.idelay = inner_retry_delay]
  /\ UNCHANGED engineVars

\* lines 190-195: the result of minimize_window, and the sleep before the next
\* attempt
P190 ==
  /\ mz.pc = "p190"
  /\ mz' = IF mz.iret
           THEN MpReturn(mz, TRUE)
           ELSE [Slept(mz, mz.retry_delay) EXCEPT !.attempt = @ + 1, !.pc = "p173"]
  /\ UNCHANGED engineVars

\* The process whose windows are minimized exits before a liveness check.
MzProcExit ==
  /\ mz.pc = "p178"
  /\ mz.alive
  /\ mz' = [mz EXCEPT !.alive = FALSE]
  /\ UNCHANGED engineVars

\* ---- the engine driven through its public operations by one thread -------
NextPM ==
  \/ StartAllBegin
  \/ StartAllHelpers
  \/ StartAllReturn
  \/ LaunchStep
  \/ \E n \in Names : TerminateCall(n)
  \/ TerminateAllCall
  \/ TerminateProgramStep("main")
  \/ TerminateAllStep("main")
  \/ Environment

SpecPM == Init /\ [][NextPM]_vars

\* ---- the same with get_running_programs among the calls, and tracked
\* ---- processes that exit between the calls ---------------------------------
NextLive ==
  \/ NextPM
  \/ GetRunningProgramsCall
  \/ TrackedExit

SpecLive == Init /\ [][NextLive]_vars

\* ---- the programs started, terminated all together, and started again ----
InitStart ==
  Start([startAll |-> MaxStartAll, ops |-> MaxStartAll, started |-> 0], Configs, {NoMz}, {NoWatch})

NextStart ==
  \/ StartAllBegin
  \/ StartAllHelpers
  \/ StartAllReturn
  \/ LaunchStep
  \/ TerminateAllCall
  \/ TerminateProgramStep("main")
  \/ TerminateAllStep("main")
  \/ Environment

SpecStart == InitStart /\ [][NextStart]_vars

\* ---- start_all_programs with a second thread that calls
\* ---- terminate_all_programs while the helper launches are in flight -------
InitEarly ==
  Start([startAll |-> 1, ops |-> 0, started |-> 0], Configs, {NoMz}, {NoWatch})

NextEarly ==
  \/ StartAllBegin
  \/ StartAllHelpers
  \/ StartAllReturn
  \/ LaunchStep
  \/ EarlyTerminateAll
  \/ TerminateAllStep("watch")
  \/ TerminateProgramStep("watch")
  \/ Environment

SpecEarly == InitEarly /\ [][NextEarly]_vars

\* ---- the programs started, terminated and started again, with helper
\* ---- launches that fail after their process was recorded ------------------
NextFail ==
  \/ NextStart
  \/ \E i \in 1..Len(program_configs) : LaunchFailure(i)

SpecFail == InitStart /\ [][NextFail]_vars

\* ---- the manager's run(): start_programs, the watcher, the wait for the
\* ---- stop event, and the finalizer; a signal may arrive at any point ------
InitMgr ==
  Start([startAll |-> 0, ops |-> 0, started |-> 1], Configs, {NoMz}, {NoWatch})

NextMgr ==
  \/ MainThread
  \/ WatchThread
  \/ SignalDelivered
  \/ Environment

SpecMgr == InitMgr /\ [][NextMgr]_vars

\* The main thread is scheduled as long as it can take a step.
FairMgr == SpecMgr /\ WF_vars(MainThread)

\* ---- a watcher on its own: a target looked up, start_watching and
\* ---- stop_watching calls, queries, and the polling thread ------------------
InitWatch ==
  Start([startAll |-> 0, ops |-> MaxRunOps, started |-> 1],
        {<< P("p1", TRUE, FALSE) >>}, {NoMz}, WatcherInputs)

NextWatch ==
  \/ FindCall
  \/ StartWatchingCall
  \/ StopWatchingCall
  \/ SW132
  \/ IsWatchingCall
  \/ IsProcessRunningCall
  \/ PollingTask
  \/ Environment
  \/ Reaped

SpecWatch == InitWatch /\ [][NextWatch]_vars

\* The polling thread is scheduled as long as it can take a step.
FairWatch == SpecWatch /\ WF_vars(PollingTask)

\* ---- one minimization call, from its entry to its return -------------------
InitMin ==
  Start([startAll |-> 0, ops |-> 0, started |-> 0],
        {<< P("p1", TRUE, FALSE), P("p2", FALSE, FALSE) >>},
        MinimizeCalls \cup PersistCalls, {NoWatch})

NextMin ==
  \/ M91
  \/ M100
  \/ M114
  \/ M120
  \/ P165
  \/ P173
  \/ P178
  \/ P190
  \/ MzProcExit

SpecMin == InitMin /\ [][NextMin]_vars

\* ---- the manager's run: programs started once, the main program watched,
\* ---- the polling thread and the main thread running side by side ---------
InitRun == Start([startAll |-> 1, ops |-> MaxRunOps, started |-> 0], PairConfigs, {NoMz}, {NoWatch})

NextRun ==
  \/ StartAllBegin
  \/ StartAllHelpers
  \/ StartAllReturn
  \/ LaunchStep
  \/ WatchIracingCall
  \/ WI224
  \/ StartWatchingCall
  \/ StopWatchingCall
  \/ SW132
  \/ CleanupCall
  \/ TerminateAllStep("main")
  \/ TerminateProgramStep("main")
  \/ WatchThread
  \/ Environment

SpecRun == InitRun /\ [][NextRun]_vars

\* The polling thread is scheduled as long as it can take a step.
FairRun == SpecRun /\ WF_vars(WatchThread)

\* ==========================================================================
\* Properties
\* ==========================================================================
Idle == pc["main"] = "idle"

\* The main thread has made the same terminate_program(n) call twice in
\* succession, n having a tracked process at the first call.
TerminatedTwice ==
  /\ cur.op = "terminate" /\ cur.done
  /\ prev.op = "terminate" /\ prev.name = cur.name /\ prev.tracked

C1_WitnessRefused == TerminatedTwice /\ prev.err /\ ~prev.ret

\* C5: in start_all_programs no helper launch has begun (queued, started or
\* spawned) while the launch of the main program has not returned.
C5_MainBeforeHelpers ==
  \A i \in 1..Len(program_configs) :
    (i # MainIndex(program_configs) /\ launch[i].pc # "idle") =>
      \/ MainIndex(program_configs) = 0
      \/ launch[MainIndex(program_configs)].pc = "done"

C5_Witness ==
  \E i \in 1..Len(program_configs) :
    /\ i # MainIndex(program_configs)
    /\ launch[i].pc = "L117"
    /\ launch[MainIndex(program_configs)].pc = "done"

\* The pids given out by the start_all_programs call in progress.
PidsOfCall == (sa.pidBase + 1)..(sa.pidBase + Len(program_configs))

\* The launch of the main program has returned failure in the call in progress.
MainFailedNow ==
  /\ sa.running /\ sa.mainIdx # 0
  /\ launch[sa.mainIdx].pc = "done" /\ ~launch[sa.mainIdx].ok

\* C6: when the launch of the main program fails (missing path, spawn error,
\* or exited by the settle check), start_all_programs launches no helper and
\* records no tracked process: no helper launch begins, no helper process
\* exists, no process of this call is in the map, and a map that was empty
\* at entry is empty.
C6_MainFailureAborts ==
  MainFailedNow =>
    /\ \A i \in 1..Len(program_configs) :
         i # sa.mainIdx => launch[i].pc = "idle" /\ ostab[NewPid(i)].state = "gone"
    /\ \A k \in 1..Len(processes) : processes[k].pid \notin PidsOfCall
    /\ sa.entryEmpty => Len(processes) = 0

C6_Witness == MainFailedNow /\ sa.entryEmpty /\ pc["main"] = "sa244"

\* C8 as stated: after terminate_all_programs returns from a state in which
\* at least one process was tracked, terminate_program has been called on
\* every name tracked at entry, the process map is empty and the termination
\* record is empty.
C8_TerminateAllCallsEveryName ==
  (cur.op = "terminateAll" /\ cur.done /\ cur.tracked) =>
    /\ ta["main"].entry \subseteq ta["main"].called
    /\ Len(processes) = 0
    /\ terminated = {}

\* C9: terminate_all_programs entered with nothing tracked returns at once:
\* no OS signal, no error, the engine's state unchanged.
C9_TerminateAllNoopWhenEmpty ==
  [][(pc["main"] = "ta387" /\ Len(processes) = 0 /\ pc'["main"] # "ta387") =>
       /\ pc'["main"] = "idle" /\ cur'.done
       /\ UNCHANGED << ostab, pmVars >>]_vars

C9_Witness ==
  /\ cur.op = "terminateAll" /\ cur.done /\ ~cur.tracked
  /\ prev.op = "terminateAll"
  /\ terminated = {} /\ budget.started > 0

\* A config flagged is_main that is not the first one flagged.
SecondMain(i) == Cfg(i).is_main /\ i # MainIndex(program_configs)

\* C10 as stated: a second spec flagged is_main is started as an ordinary
\* helper: launched in the helper phase with a hidden console, without the
\* main-only settle check, and put through persistent minimization (skipped
\* only when it starts in the tray).
C10_SecondMainIsHelper ==
  \A i \in 1..Len(program_configs) :
    (SecondMain(i) /\ launch[i].pc = "done" /\ launch[i].ok) =>
      /\ ~ostab[launch[i].pid].visible
      /\ ~ostab[launch[i].pid].settle
      /\ ostab[launch[i].pid].minimize # "none"

\* ---- properties of the manager's run ---------------------------------------
\* C2 as stated: under every interleaving of two threads terminating the same
\* tracked, running program, at most one of the two calls issues OS
\* terminate/kill signals to its process.
C2_OneSignallingCall ==
  \A pid \in DOMAIN ostab : ostab[pid].sigCalls <= 1

\* The polling thread of the session has ended after the target died while
\* the loop was polling it.
DiedWhileWatched == watch.died /\ pc["watch"] = "done"

\* C3 as stated: in every watch session in which the target dies while it is
\* watched the exit callback is invoked exactly once, whatever stop_watching
\* calls other threads make.
C3_CallbackExactlyOnce ==
  DiedWhileWatched => watch.cb = 1

\* C3 amended: in every watch session in which the target dies while it is
\* watched the exit callback is invoked at most once, and exactly once unless
\* another thread called stop_watching before the polling loop had detected
\* the death.
C3_CallbackOnceUnlessStopped ==
  DiedWhileWatched =>
    /\ watch.cb <= 1
    /\ ~watch.stopFirst => watch.cb = 1

C3_Witness ==
  /\ DiedWhileWatched /\ ~watch.stopFirst /\ watch.cb = 1
  /\ cur.op = "stop" /\ cur.done

C3_WitnessStopped == DiedWhileWatched /\ watch.stopFirst /\ watch.cb = 0

\* C4: the exit callback is invoked at most once in a watch session, whatever
\* the polls, the stop_watching calls and the start_watching calls made while
\* the polling thread is alive.
C4_CallbackAtMostOnce == watch.cb <= 1

C4_Witness ==
  /\ watch.cb = 1
  /\ cur.op = "start" /\ cur.tracked
  /\ watch.session = 1

\* The watched process is dead while the polling loop runs.
WatchedTargetDead == Polling /\ ~Running(watch.target)

\* The exit has been handled: the callback has run, nothing is tracked, no
\* program is reported running and the manager's stop event is set.
ExitHandled ==
  /\ watch.cb >= 1
  /\ Len(processes) = 0
  /\ get_running_programs = {}
  /\ mgr.stop_event

\* C7 as stated: when the watched main program exits then, the polling thread
\* being scheduled fairly, eventually the exit callback has run, every tracked
\* process is removed from tracking, no program is reported running and the
\* manager's stop event is set.
C7_ExitLeadsToShutdown == WatchedTargetDead ~> ExitHandled

\* C7 amended: the same, unless another thread called stop_watching before the
\* polling loop had detected the exit.
C7_ExitLeadsToShutdownUnlessStopped ==
  WatchedTargetDead ~> (ExitHandled \/ watch.stopFirst)

C7_Witness == ExitHandled /\ watch.died /\ ~watch.stopFirst /\ pc["watch"] = "done"

\* ---- properties of the launch and of the signals (C11..C14) ----------------
\* C11 as stated: once start_all_programs has launched the main program, the
\* recorded main process and main name are those of the first config flagged
\* is_main, and no helper launch changes them.
C11_MainRefIsFirstMain ==
  (sa.running /\ pc["main"] = "sa266" /\ sa.mainIdx # 0) =>
    /\ main_program_proc = NewPid(sa.mainIdx)
    /\ main_program_name = Cfg(sa.mainIdx).name

\* C12: terminate_program sends a forceful kill to a process only after it
\* has sent the graceful terminate to it in the same call and has seen the
\* process still running.
C12_KillOnlyAfterTerminate ==
  [][\A pid \in DOMAIN ostab :
       (ostab'[pid].kill /\ ~ostab[pid].kill) =>
         /\ pc["main"] = "tp348" /\ tp["main"].pid = pid
         /\ tp["main"].sig /\ ostab[pid].term
         /\ ostab[pid].state = "running"]_vars

C12_Witness ==
  /\ pc["main"] = "tp364" /\ tp["main"].sig
  /\ ostab[tp["main"].pid].term /\ ostab[tp["main"].pid].kill

\* C13 as stated: a tracked process that is still running after
\* terminate_program has sent it the graceful terminate has been sent a
\* forceful kill by the time terminate_program returns, on the psutil path
\* and on the basic path.
C13_KillBeforeReturn ==
  \A t \in Threads :
    (pc[t] = "tp364" /\ tp[t].sig /\ ~tp[t].err /\ ostab[tp[t].pid].state = "running")
      => ostab[tp[t].pid].kill

\* The record of the main program launched by the call in progress is in the
\* map d.
MainRecordIn(d) ==
  /\ Has(d, Cfg(sa.mainIdx).name)
  /\ Get(d, Cfg(sa.mainIdx).name).pid = NewPid(sa.mainIdx)

\* A helper launch of the call in progress has failed.
HelperFailed(i) == i # sa.mainIdx /\ launch[i].pc = "done" /\ ~launch[i].ok

\* C14: in the helper phase of start_all_programs no step, a failing helper
\* launch included, removes or replaces the tracked process of the main
\* program, and start_all_programs returns only when the launch of every
\* helper has ended with its outcome, whether or not a sibling failed.
C14_HelperFailureIsLocal ==
  [][(pc["main"] = "sa266" /\ sa.mainIdx # 0) =>
       /\ MainRecordIn(processes')
       /\ pc'["main"] # "sa266" =>
            \A i \in 1..Len(program_configs) : i # sa.mainIdx => launch[i].pc = "done"]_vars

C14_Witness ==
  /\ pc["main"] = "sa266" /\ sa.mainIdx # 0
  /\ MainRecordIn(processes)
  /\ \E i, j \in 1..Len(program_configs) :
       /\ HelperFailed(i)
       /\ j # i /\ j # sa.mainIdx /\ launch[j].pc = "done" /\ launch[j].ok

\* ---- C15 ---------------------------------------------------------------------
\* The window source of the call reports "not minimized" in its first k
\* enumerations and "minimized" from then on.
NotMinThenMin(k) ==
  /\ Len(mz.script) = k + 1
  /\ mz.script[k + 1] = "min"
  /\ \A n \in 1..k : mz.script[n] = "notmin"

\* C15: when the window source reports "not minimized" for the first
\* k < maxAttempts attempts and "minimized" afterwards, a returned call of
\* minimize has returned true after exactly k+1 attempts: k+1 window
\* enumerations, k+1 minimize requests and k+1 placement queries.
C15_MinimizeConverges ==
  \A k \in 0..(MaxAttempts - 1) :
    (/\ mz.call = "minimize" /\ mz.done
     /\ WINDOWS_IMPORTS_AVAILABLE
     /\ k < mz.imax
     /\ NotMinThenMin(k)) =>
      /\ mz.ret
      /\ mz.enums = k + 1
      /\ mz.shows = k + 1
      /\ mz.queries = k + 1
      /\ mz.iattempt = k + 1

C15_Witness ==
  /\ mz.call = "minimize" /\ mz.done /\ WINDOWS_IMPORTS_AVAILABLE
  /\ NotMinThenMin(2) /\ mz.imax > 2
  /\ mz.ret /\ mz.enums = 3

\* ---- C16 ---------------------------------------------------------------------
\* The window source of the call never reports "minimized".
NeverMinimized == \A n \in 1..Len(mz.script) : mz.script[n] # "min"

\* C16: with retryDelay * maxAttempts > timeoutSeconds and a window that never
\* becomes minimized, a returned call of minimizePersistently has returned
\* false no later than timeoutSeconds after it started.
C16_TimeoutDominance ==
  (/\ mz.call = "persist" /\ mz.done
   /\ ~mz.starts_in_tray
   /\ NeverMinimized
   /\ mz.retry_delay * mz.max_attempts > mz.timeout_seconds) =>
    /\ ~mz.ret
    /\ mz.now - mz.start_time <= mz.timeout_seconds

\* ---- C17 ---------------------------------------------------------------------
\* C17: a returned call of minimizePersistently with startsInTray set has
\* returned true without a window enumeration, a minimize request, a placement
\* query, a liveness check or a sleep, and without time passing.
C17_TrayShortCircuit ==
  (mz.call = "persist" /\ mz.done /\ mz.starts_in_tray) =>
    /\ mz.ret
    /\ mz.enums = 0 /\ mz.shows = 0 /\ mz.queries = 0
    /\ mz.checks = 0 /\ mz.sleeps = 0
    /\ mz.now = 0

C17_Witness ==
  /\ mz.call = "persist" /\ mz.done /\ mz.starts_in_tray /\ mz.ret
  /\ mz.script[1] = "notmin"

\* ---- C20 ---------------------------------------------------------------------
\* This step is a call of start_watching.
StartCalled == cur'.op = "start" /\ budget'.ops = budget.ops - 1

\* This step starts a polling thread.
Spawned == watch'.session # watch.session

\* A polling thread exists and has not ended.
PollingTaskLive == pc["watch"] # "none" /\ pc["watch"] # "done"

\* C20: a polling thread is started only when none is alive and the watcher
\* has a target, so a watcher has at most one; a call of start_watching while
\* the thread is alive, or without a target, changes nothing of the watcher:
\* no thread is started and the stop event is not cleared.
C20_OnePollingTask ==
  [][/\ Spawned => (~PollingTaskLive /\ watch'.target # 0)
     /\ (StartCalled /\ (PollingTaskLive \/ watch.target = 0)) =>
          (watch' = watch /\ pc'["watch"] = pc["watch"])]_vars

C20_Witness ==
  /\ cur.op = "start" /\ cur.tracked
  /\ PollingTaskLive /\ watch.stop /\ watch.session = 1

C20_WitnessNoTarget ==
  cur.op = "start" /\ watch.target = 0 /\ pc["watch"] = "none"

\* ---- C18 ---------------------------------------------------------------------
\* _cleanup has called terminate_all_programs and no process is tracked.
AllTerminatedByCleanup == mgr.ta_invoked /\ Len(processes) = 0

\* C18: once a signal (SIGINT/SIGTERM) has been delivered, at whatever point of
\* the run, terminate_all_programs is eventually called by _cleanup and no
\* process remains tracked; and whenever the interpreter has exited, the
\* finalizer has seen to the same.
C18_InterruptLeadsToTerminateAll ==
  /\ mgr.sig ~> AllTerminatedByCleanup
  /\ [](mgr.exit # "none" => AllTerminatedByCleanup)

\* The signal arrived while the main program was running and watched: nothing
\* but the signal has ended the run.
C18_Witness ==
  /\ mgr.sig /\ mgr.exit = "0" /\ AllTerminatedByCleanup
  /\ watch.session = 1 /\ ~watch.process_terminated /\ watch.cb = 0

\* ---- C19 ---------------------------------------------------------------------
\* C19: a helper that cannot be started is not fatal to the run: the run exits
\* non-zero only when the main program could not be started.
C19_HelperFailureNonFatal ==
  (mgr.exit = "1") => mgr.main_failed

\* ---- C25 ---------------------------------------------------------------------
\* C25 as stated: when terminate_program(name) has returned for a name that
\* was tracked at entry, the process map holds no entry for name, whatever the
\* call returned.
C25_EntryRemoved ==
  (cur.op = "terminate" /\ cur.done /\ cur.tracked) => ~Has(processes, cur.name)

\* ---- C26 ---------------------------------------------------------------------
\* The main thread is in a terminate_program call made directly, for a name
\* that is neither tracked nor in the termination record.
TerminatingUnknown ==
  /\ cur.op = "terminate" /\ ~cur.done
  /\ ~Has(processes, cur.name)
  /\ cur.name \notin terminated

\* C26: a terminate_program call for a name that is neither tracked nor in the
\* termination record changes neither the OS process table nor the engine's
\* state, and returns False.
C26_UnknownNameIsNoop ==
  [][TerminatingUnknown =>
       /\ UNCHANGED << ostab, pmVars >>
       /\ cur'.done => (~cur'.ret /\ ~cur'.sig /\ ~cur'.mut /\ ~cur'.err)]_vars

C26_Witness ==
  /\ cur.op = "terminate" /\ cur.done /\ ~cur.tracked /\ ~cur.ret
  /\ cur.name \notin terminated
  /\ Len(processes) > 0

\* ---- C27 ---------------------------------------------------------------------
\* This step is the return of a terminate_program call made directly.
TerminateReturns == cur.op = "terminate" /\ ~cur.done /\ cur'.done

\* The name of the call is tracked and its process has exited.
TrackedButGone ==
  /\ Has(processes, cur.name)
  /\ ostab[Get(processes, cur.name).pid].state # "running"

\* C27 as stated: terminate_program(name) on a tracked process that is gone
\* without the call having signalled it (it had exited before the call, or
\* between the liveness check and the signal) returns True and removes the
\* entry.
C27_GoneIsSuccess ==
  [][(TerminateReturns /\ TrackedButGone /\ ~cur'.sig) =>
       (cur'.ret /\ ~Has(processes', cur.name))]_vars

\* ---- C21 ---------------------------------------------------------------------
\* This step is a call of stop_watching by the main thread.
StopCalled == cur'.op = "stop" /\ budget'.ops = budget.ops - 1

\* This step is the polling thread invoking the manager's exit callback, which
\* calls stop_watching first.
CallbackStopsWatching ==
  /\ pc["watch"] = "w158" /\ pc'["watch"] # "w158"
  /\ watch'.cb # watch.cb

\* C21: stop_watching never blocks for good.  Called with no polling thread
\* alive it changes nothing and has returned; called by the polling thread
\* itself inside the exit callback it sets the stop event and the thread goes
\* straight on, without a join; called by another thread, its join can return
\* in every state, whether the polling thread has ended or not.
C21_StopReturns ==
  /\ [][(StopCalled /\ ~PollingTaskLive) =>
          (watch' = watch /\ pc' = pc /\ cur'.done)]_vars
  /\ [][CallbackStopsWatching =>
          (watch'.stop /\ pc'["watch"] = "ta387" /\ pc'["main"] = pc["main"])]_vars
  /\ [](pc["main"] = "sw132" => ENABLED SW132)

\* stop_watching has returned to the main thread while the polling thread,
\* busy in the exit callback, has not ended.
C21_Witness ==
  /\ cur.op = "stop" /\ cur.done
  /\ pc["watch"] \in {"ta387", "ta394", "ta396", "tp339", "tp343"}

\* ---- C22 ---------------------------------------------------------------------
\* The watcher is in the Watching state: started, the polling loop running
\* (the target's exit not detected), stop not requested.
WatchingState == pc["watch"] \in {"w141", "w143"} /\ ~watch.stop

\* The polling loop has ended on the detection of the target's exit and the
\* thread has not yet set the stop event (line 165).
ExitJustDetected ==
  pc["watch"] \in {"w158", "w165"} /\ ~watch.stop /\ watch.process_terminated

\* This step is a call of is_watching.
IsWatchingCalled ==
  cur'.op = "is_watching" /\ UNCHANGED << pc, watch, ostab, budget >>

\* C22 as stated: is_watching returns true exactly when the watcher is in the
\* Watching state with its polling thread alive; it is true right after
\* start_watching on a live target, and false once the target's exit has been
\* detected or stop_watching has been called.
C22_IsWatchingIffWatching ==
  /\ [][IsWatchingCalled => (cur'.ret <=> WatchingState)]_vars
  /\ [][Spawned => WatchingState']_vars

\* C22 amended: is_watching returns true exactly when the stop event is not
\* set and the polling thread is alive, that is in the Watching state and
\* also between the detection of the target's exit and the moment the thread
\* sets the stop event after the callback; it is true right after
\* start_watching on a live target and false once stop_watching has signalled
\* the thread or the thread has set the stop event.
C22_IsWatchingUntilStopSet ==
  /\ [][IsWatchingCalled =>
          (cur'.ret <=> (WatchingState \/ ExitJustDetected))]_vars
  /\ [][Spawned => WatchingState']_vars
  /\ [][(IsWatchingCalled /\ (watch.stop \/ pc["watch"] = "done")) => ~cur'.ret]_vars

\* is_watching has returned false after stop_watching was called on a live
\* polling thread.
C22_Witness ==
  /\ cur.op = "is_watching" /\ cur.done /\ ~cur.ret
  /\ prev.op = "stop" /\ watch.stop /\ watch.session = 1

C22_WitnessTrue ==
  cur.op = "is_watching" /\ cur.ret /\ prev.op = "start" /\ WatchingState

\* ---- C23 ------------------------------------------------------------------
\* The exit callback has raised and the polling thread has taken up its work
\* after the handler of lines 162-163.
CallbackRaised == watch.raised

\* C23: an exception raised by the exit callback is caught inside the polling
\* task: the thread does not end on it, it goes on to line 165, ends with the
\* stop event set, and the callback has been invoked exactly once in the
\* session.
C23_CallbackExceptionCaught ==
  /\ [](CallbackRaised =>
          /\ pc["watch"] \in {"w165", "done"}
          /\ watch.cb = 1
          /\ pc["watch"] = "done" => watch.stop)
  /\ (CallbackRaised ~> (pc["watch"] = "done" /\ watch.stop /\ watch.cb = 1))

C23_Witness ==
  /\ watch.raised
  /\ watch.callback = "raises"
  /\ pc["watch"] = "done"
  /\ watch.stop
  /\ watch.cb = 1

\* ---- C24 ------------------------------------------------------------------
\* start_programs has returned True and run() has not yet gone on to
\* watch_iracing (line 284).
StartProgramsReturnedTrue == pc["main"] = "run284"

StoppedBeforeDetection == watch.stopFirst

\* C28 as stated: when stop_watching sets the stop event before the polling
\* thread has detected the target's exit, the exit callback is not invoked in
\* that session.
C28_NoCallbackAfterStop ==
  StoppedBeforeDetection => watch.cb = 0

\* ---- C29 ------------------------------------------------------------------
\* The liveness query of a poll (line 143) has failed with an error in this
\* step.
PollQueryFailed ==
  pc["watch"] = "w143" /\ pc'["watch"] # "w143" /\ ~watch.qerr /\ watch'.qerr

\* C29: a liveness query that fails with an error during a poll counts as the
\* target's exit in that iteration: the loop ends with process_terminated set,
\* the exit callback (if any) is invoked once as for a real exit, and the
\* polling thread ends.
C29_QueryErrorIsExit ==
  /\ [][PollQueryFailed =>
          (pc'["watch"] = "w158" /\ watch'.process_terminated)]_vars
  /\ []((watch.qerr /\ pc["watch"] \in {"w165", "done"}) =>
          watch.cb = (IF watch.callback = "none" THEN 0 ELSE 1))
  /\ (watch.qerr ~> pc["watch"] = "done")

\* A query on a live target failed and the callback has run although the
\* target never exited.
C29_Witness ==
  /\ watch.qerr
  /\ pc["watch"] = "done"
  /\ watch.cb = 1
  /\ watch.target # 0
  /\ ostab[watch.target].state = "running"

\* ---- C30 ------------------------------------------------------------------
\* is_process_running() is called by the main thread in this step.
IsProcessRunningCalled ==
  cur'.op = "is_process_running" /\ UNCHANGED << pc, watch, ostab, budget >>

\* The target has a process entry whose status is not zombie.
EntryExistsNotZombie ==
  /\ watch.target # 0
  /\ ostab[watch.target].state \notin {"gone", "exited"}

C30_WitnessMissing ==
  /\ cur.op = "is_process_running" /\ cur.done /\ ~cur.ret /\ ~cur.err
  /\ watch.target # 0
  /\ ostab[watch.target].state = "gone"

\* ... for a watcher without a target
C30_WitnessNoTarget ==
  cur.op = "is_process_running" /\ cur.done /\ ~cur.ret /\ watch.target = 0

\* ... and alive for a running target
C30_WitnessAlive ==
  /\ cur.op = "is_process_running" /\ cur.done /\ cur.ret
  /\ watch.target # 0
  /\ ostab[watch.target].state = "running"

\* ---- C31 ------------------------------------------------------------------
\* The attempts of the call (those it may make at most) in which the window
\* source reports windows that are all minimized at the placement query.
GoodAttempts ==
  IF WINDOWS_IMPORTS_AVAILABLE
  THEN {n \in 1..mz.imax : Response(n) = "min"}
  ELSE {}

C31_WitnessFalse ==
  /\ mz.call = "minimize" /\ mz.done /\ ~mz.ret
  /\ mz.imax = 3 /\ mz.enums = 3
  /\ mz.script = << "notmin", "none", "vanished" >>

\* ---- C32 ------------------------------------------------------------------
\* The current attempt has met an error on one handle (a ShowWindow request
\* that failed, or a window gone at its placement query) and is past its
\* ShowWindow loop.
HandleErrorMet ==
  /\ mz.call = "minimize"
  /\ mz.resp \in {"showerr", "vanished"}
  /\ mz.pc # "m114"

\* C32 as stated: an error on a single handle makes the attempt count as not
\* successful (the call does not return true at that attempt) and does not keep
\* ShowWindow from being requested on the other handles found in the attempt.
C32_HandleErrorIsLocal ==
  HandleErrorMet =>
    /\ mz.requested = mz.found
    /\ mz.done => ~mz.ret

\* ---- C33 ------------------------------------------------------------------
\* The outer loop of _minimize_program_persistently is at its liveness check
\* and the process has died.
DeadAtCheck == mz.call = "persist" /\ mz.pc = "p178" /\ ~mz.alive

\* C33: every outer iteration that calls minimize_window has checked the
\* liveness of pid before; with the process dead the check ends the call with
\* false, no window being enumerated, minimized or queried in that step, and a
\* returned call does nothing more.
C33_DeadProcessEndsCall ==
  /\ [][DeadAtCheck =>
          /\ mz'.done /\ ~mz'.ret
          /\ mz'.enums = mz.enums /\ mz'.shows = mz.shows
          /\ mz'.queries = mz.queries /\ mz'.sleeps = mz.sleeps]_vars
  /\ []((mz.call = "persist" /\ mz.pc \in {"m91", "m100", "m114", "m120", "p190"})
          => mz.checks = mz.attempt)
  /\ [][mz.done => UNCHANGED mz]_vars

\* The process died during the first iteration; the second iteration's check
\* has ended the call.
C33_Witness ==
  /\ mz.call = "persist" /\ mz.done /\ ~mz.ret /\ ~mz.alive
  /\ mz.checks = 2 /\ mz.attempt = 2
  /\ mz.enums = inner_max_attempts

\* ---- C34 ------------------------------------------------------------------
\* The time elapsed since _minimize_program_persistently read start_time
\* exceeds timeout_seconds.
TimedOut ==
  /\ mz.call = "persist"
  /\ mz.pc # "p165"
  /\ ~mz.starts_in_tray
  /\ mz.now - mz.start_time > mz.timeout_seconds

\* C34 as stated: once the elapsed time exceeds timeout_seconds, no further
\* attempt of minimize_window is started (no further window enumeration) and
\* the call returns false, however few outer attempts have been made.
C34_TimeoutStopsAttempts ==
  /\ [][TimedOut => mz'.enums = mz.enums]_vars
  /\ []((TimedOut /\ mz.done) => ~mz.ret)

\* What holds at the head of the outer loop: a timed-out call returns false
\* there although outer attempts remain.
C34_OuterLoopHonoursTimeout ==
  [][(TimedOut /\ mz.pc = "p173") => (mz'.done /\ ~mz'.ret)]_vars

\* ---- C35 ------------------------------------------------------------------
\* get_running_programs() is called in this step.
GetRunningCalled == cur'.op = "running" /\ budget'.ops = budget.ops - 1

\* The tracked entries whose process has not exited.
StillRunning == SelectSeq(processes, LAMBDA e : ostab[e.pid].state = "running")

\* C35: get_running_programs returns exactly the tracked names whose process
\* is still running and removes every other entry, so that the keys of the
\* map afterwards are the returned list; it sends no signal and leaves the
\* termination record alone.
C35_RunningNamesAndPrune ==
  [][GetRunningCalled =>
       /\ cur'.names = Keys(StillRunning)
       /\ processes' = StillRunning
       /\ Keys(processes') = cur'.names
       /\ terminated' = terminated
       /\ \A pid \in DOMAIN ostab :
            /\ ostab'[pid].term => ostab[pid].term
            /\ ostab'[pid].kill => ostab[pid].kill
            /\ ostab'[pid].sigCalls <= ostab[pid].sigCalls
            /\ ostab[pid].state = "running" => ostab'[pid].state = "running"]_vars

\* One of two tracked programs had exited: its entry is gone, the other name
\* is returned.
C35_Witness ==
  /\ cur.op = "running" /\ cur.done /\ cur.mut
  /\ Len(cur.names) = 1
  /\ Keys(processes) = cur.names
  /\ ostab[processes[1].pid].state = "running"

\* ---- C36 ------------------------------------------------------------------
\* The pids of the entries a step of terminate_program or
\* terminate_all_programs removes from the process map.
DroppedByTermination ==
  IF cur.op \in {"terminate", "terminateAll"} /\ ~cur.done
  THEN {processes[i].pid : i \in 1..Len(processes)}
         \ {processes'[i].pid : i \in 1..Len(processes')}
  ELSE {}

\* C36 as stated: whenever terminate_program or terminate_all_programs removes
\* the entry of a process that is still running, a terminate (or kill) signal
\* has been sent to that process.
C36_NoRunningProcessDroppedUnsignalled ==
  [][\A pid \in DroppedByTermination :
       ostab[pid].state = "running" => (ostab[pid].term \/ ostab[pid].kill)]_vars

\* ---- C37 ------------------------------------------------------------------
\* The processes that run without an entry in the process map and without a
\* launch in flight that holds them.
RunningUntracked ==
  {pid \in DOMAIN ostab :
     /\ ostab[pid].state = "running"
     /\ \A i \in 1..Len(processes) : processes[i].pid # pid
     /\ \A i \in 1..Len(launch) :
          launch[i].pc \in {"idle", "queued", "done"} \/ launch[i].pid # pid}

\* start_all_programs has returned and the terminate_all_programs call made
\* while its helper launches were in flight has returned too.
EarlyTerminateAllOver ==
  /\ cur.op = "startAll" /\ cur.done
  /\ pc["watch"] = "done"

\* C37 as stated: when terminate_all_programs has run while helper launches
\* were in flight, every process that was spawned and is still running has
\* been sent a signal by it or has its entry in the process map.
C37_NoHelperLeftRunningUntracked ==
  EarlyTerminateAllOver =>
    \A pid \in RunningUntracked : ostab[pid].term \/ ostab[pid].kill

\* ---- C38 ------------------------------------------------------------------
\* The launch of helper i fails in this step, after its process was spawned
\* and recorded.
FailsAfterRecord(i) ==
  /\ launch[i].pc \in {"L128", "L139"}
  /\ launch'[i].pc = "done"
  /\ ~launch'[i].ok

\* C38 as stated: a failure after a helper's process was spawned and recorded
\* does not leave the process running and untracked: its entry is kept, or the
\* process has been sent a signal before the entry is removed.
C38_FailedHelperStaysTracked ==
  [][\A i \in 1..Len(program_configs) :
       (FailsAfterRecord(i) /\ ostab'[launch[i].pid].state = "running") =>
         \/ \E k \in 1..Len(processes') : processes'[k].pid = launch[i].pid
         \/ ostab'[launch[i].pid].term
         \/ ostab'[launch[i].pid].kill]_vars

\* ---- C39 ------------------------------------------------------------------
\* The exit callback sets the manager's stop event in this step.
CallbackSetsStopEvent ==
  /\ ~mgr.stop_event /\ mgr'.stop_event
  /\ ~mgr'.sig
  /\ watch.cb > 0

\* The main thread leaves the wait of line 290 in this step, released by the
\* exit callback and not by a signal.
ReleasedByExit ==
  /\ pc["main"] = "run290" /\ pc'["main"] # "run290"
  /\ ~mgr.sig

\* C39: on a detected exit of the main program the manager's stop event is
\* set only after terminate_all_programs has returned inside the callback, and
\* when the main thread is released from its wait by a detected exit no
\* process is tracked.
C39_StopEventAfterTerminateAll ==
  /\ [][CallbackSetsStopEvent =>
          /\ pc["watch"] = "cb260"
          /\ ~ta["watch"].active
          /\ Len(processes) = 0]_vars
  /\ [][ReleasedByExit =>
          /\ watch.cb > 0
          /\ ~ta["watch"].active
          /\ Len(processes) = 0]_vars

\* The main thread has been released by the callback of a detected exit.
C39_Witness ==
  /\ pc["main"] = "run298"
  /\ mgr.stop_event /\ ~mgr.sig
  /\ watch.cb = 1 /\ watch.process_terminated
  /\ Len(processes) = 0

\* ---- C40 ------------------------------------------------------------------
\* The polling thread starts a liveness check (line 143) in this step.
StartsLivenessCheck == pc["watch"] # "w143" /\ pc'["watch"] = "w143"

\* stop_watching has set the stop event on a watcher whose loop was polling,
\* and no new session has been started since.
StoppedWhileWatching == watch.stopFirst

\* C40: once stop_watching has set the stop event on a watching watcher, the
\* polling thread starts no liveness check any more (the one in progress is
\* the last), the event stays set for as long as the thread lives, and, under
\* weak fairness of the polling thread, the thread ends with the event set
\* whether or not the target exits.
C40_StopInterruptsPolling ==
  /\ [][watch.stop => ~StartsLivenessCheck]_vars
  /\ [][(StoppedWhileWatching /\ pc["watch"] # "done") => watch'.stop]_vars
  /\ (StoppedWhileWatching ~>
        (pc["watch"] = "done" /\ watch.stop /\ StoppedWhileWatching))

\* The thread has ended after a stop request while its target still runs.
C40_Witness ==
  /\ watch.stopFirst /\ watch.stop
  /\ pc["watch"] = "done"
  /\ ~watch.process_terminated
  /\ ostab[watch.target].state = "running"
====
